---- MODULE Spec2Model ----
(***************************************************************************)
(* Explanation cache, explanation generation and hybrid model router of    *)
(* the lecture-note MCQ tutoring backend.                                  *)
(*                                                                         *)
(* Python strings are TLA+ strings; Len, SubSeq and \o act on them         *)
(* character by character, so that searching, slicing and prefix tests are *)
(* computed the way the Python code computes them.                         *)
(***************************************************************************)
EXTENDS Integers, Sequences, FiniteSets, TLC

(***************************************************************************)
(* String helpers (Python str / re primitives used by the code).           *)
(***************************************************************************)
Char(s, i) == SubSeq(s, i, i)

UpperChars == "ABCDEFGHIJKLMNOPQRSTUVWXYZ"
LowerChars == "abcdefghijklmnopqrstuvwxyz"
DigitChars == "0123456789_"

InChars(c, chars) == \E i \in 1..Len(chars) : Char(chars, i) = c

IndexIn(c, chars) == CHOOSE i \in 1..Len(chars) : Char(chars, i) = c

\* str.upper() / str.lower() of one character
UpperChar(c) == IF InChars(c, LowerChars) THEN Char(UpperChars, IndexIn(c, LowerChars)) ELSE c
LowerChar(c) == IF InChars(c, UpperChars) THEN Char(LowerChars, IndexIn(c, UpperChars)) ELSE c

RECURSIVE Lower(_)
Lower(s) == IF Len(s) = 0 THEN "" ELSE LowerChar(Char(s, 1)) \o Lower(SubSeq(s, 2, Len(s)))

IsLetter(c) == InChars(c, UpperChars) \/ InChars(c, LowerChars)
\* \w of the re module
IsWordChar(c) == IsLetter(c) \/ InChars(c, DigitChars)
IsSpace(c) == c = " " \/ c = "\n" \/ c = "\t"

\* str.strip()
RECURSIVE LStrip(_)
LStrip(s) == IF Len(s) > 0 /\ IsSpace(Char(s, 1)) THEN LStrip(SubSeq(s, 2, Len(s))) ELSE s
RECURSIVE RStrip(_)
RStrip(s) == IF Len(s) > 0 /\ IsSpace(Char(s, Len(s))) THEN RStrip(SubSeq(s, 1, Len(s) - 1)) ELSE s
Strip(s) == RStrip(LStrip(s))

\* s.startswith(p), s.endswith(p)
StartsWith(s, p) == Len(p) <= Len(s) /\ SubSeq(s, 1, Len(p)) = p
EndsWith(s, p) == Len(p) <= Len(s) /\ SubSeq(s, Len(s) - Len(p) + 1, Len(s)) = p

\* s.find(p, start): the 1-based index of the first occurrence of p at or after
\* the 1-based position start, 0 when there is none (Python's -1)
MatchAt(s, p, i) == i >= 1 /\ i + Len(p) - 1 <= Len(s) /\ SubSeq(s, i, i + Len(p) - 1) = p
FindFrom(s, p, start) ==
    LET hits == {i \in start..(Len(s) - Len(p) + 1) : MatchAt(s, p, i)}
    IN  IF hits = {} THEN 0 ELSE CHOOSE i \in hits : \A j \in hits : i <= j
Find(s, p) == FindFrom(s, p, 1)
\* s.rfind(p)
RFind(s, p) ==
    LET hits == {i \in 1..(Len(s) - Len(p) + 1) : MatchAt(s, p, i)}
    IN  IF hits = {} THEN 0 ELSE CHOOSE i \in hits : \A j \in hits : i >= j
\* p in s
Contains(s, p) == Find(s, p) # 0

\* s[:n]
Prefix(s, n) == SubSeq(s, 1, IF n < Len(s) THEN n ELSE Len(s))

(***************************************************************************)
(* Label normalizer: agent_tools._normalize_choice_label                   *)
(***************************************************************************)
\* re.search(r"\b([A-D])\b", s, IGNORECASE): positions of a standalone letter A-D
StandaloneAt(s, i) ==
    /\ InChars(Char(s, i), "ABCDabcd")
    /\ (i = 1 \/ ~IsWordChar(Char(s, i - 1)))
    /\ (i = Len(s) \/ ~IsWordChar(Char(s, i + 1)))

\* _normalize_choice_label with the regex matching upper-case letters only
\* (no IGNORECASE flag)
NormalizeCaseSensitive(x) ==
    LET s == Strip(x)
        hits == {i \in 1..Len(s) : StandaloneAt(s, i) /\ InChars(Char(s, i), "ABCD")}
        first == CHOOSE i \in hits : \A j \in hits : i <= j
        cut == IF EndsWith(s, ".") \/ EndsWith(s, ":") THEN SubSeq(s, 1, Len(s) - 1) ELSE s
    IN  IF s = "" THEN ""
        ELSE IF hits # {} THEN Char(s, first)
        ELSE IF cut = "" THEN "" ELSE UpperChar(Char(cut, 1))

_normalize_choice_label(x) ==
    LET s == Strip(x)
        hits == {i \in 1..Len(s) : StandaloneAt(s, i)}
        first == CHOOSE i \in hits : \A j \in hits : i <= j
        \* re.sub(r"[.:]$", "", s)
        cut == IF EndsWith(s, ".") \/ EndsWith(s, ":") THEN SubSeq(s, 1, Len(s) - 1) ELSE s
    IN  IF s = "" THEN ""
        ELSE IF hits # {} THEN UpperChar(Char(s, first))
        ELSE IF cut = "" THEN "" ELSE UpperChar(Char(cut, 1))

(***************************************************************************)
(* The question store (models.Question, Option, AnswerKey, Lecture), as    *)
(* get_question_by_id loads it.  answer_key = 0: no answer key row.        *)
(* lecture = "": no lecture text.                                          *)
(* Option labels are any 1-5 characters (schemas.OptionCreate), so a label  *)
(* such as "." is storable.                                                *)
(***************************************************************************)
Opt(i, l, t, c) == [id |-> i, label |-> l, text |-> t, is_correct |-> c]

QuestionStore ==
    42 :> [stem |-> "What is the process by which plants make sugar?",
           options |-> << Opt(1, "A", "Photosynthesis", TRUE),
                          Opt(2, "B", "Respiration", FALSE),
                          Opt(3, "C", "Fermentation", FALSE),
                          Opt(4, "D", "Osmosis", FALSE) >>,
           answer_key |-> 1,
           lecture |-> "Plants make sugar by photosynthesis. Osmosis moves water." ]
 @@ 7  :> [stem |-> "Which process gives better results for plants?",
           options |-> << Opt(5, "a.", "Faster sugar results", FALSE),
                          Opt(6, "b.", "Process of plants", TRUE) >>,
           answer_key |-> 0,
           lecture |-> "" ]
 @@ 8  :> [stem |-> "Unkeyed question",
           options |-> << Opt(9, "A", "One", FALSE), Opt(10, "B", "Two", FALSE) >>,
           answer_key |-> 0,
           lecture |-> "" ]
 @@ 9  :> [stem |-> "Which statement is true of osmosis?",
           options |-> << Opt(11, ".", "None of the above", FALSE),
                          Opt(12, "A", "It moves water", TRUE) >>,
           answer_key |-> 12,
           lecture |-> "" ]

\* mcq_service.get_question_by_id: the question, or None
HasQuestion(qid) == qid \in DOMAIN QuestionStore

OptionById(q, oid) == CHOOSE o \in {q.options[i] : i \in 1..Len(q.options)} : o.id = oid

\* the label of the answer key's option, normalized; "" without an answer key
AnswerKeyLabel(q) ==
    IF q.answer_key # 0 THEN _normalize_choice_label(OptionById(q, q.answer_key).label) ELSE ""

\* "Prefer answer_key if present", then the scan of agent_tools.py lines 104-108:
\* the first option flagged is_correct whose normalized label is not empty;
\* "" when there is neither
CorrectLabelOf(q) ==
    LET flagged == {i \in 1..Len(q.options) :
                       q.options[i].is_correct /\ _normalize_choice_label(q.options[i].label) # ""}
    IN  IF AnswerKeyLabel(q) # "" THEN AnswerKeyLabel(q)
        ELSE IF flagged = {} THEN ""
        ELSE _normalize_choice_label(
                 q.options[CHOOSE i \in flagged : \A j \in flagged : i <= j].label)

\* the backup revision (lines 171-180) stops at the first flagged option
BackupCorrectLabelOf(q) ==
    LET flagged == {i \in 1..Len(q.options) : q.options[i].is_correct}
    IN  IF AnswerKeyLabel(q) # "" THEN AnswerKeyLabel(q)
        ELSE IF flagged = {} THEN ""
        ELSE _normalize_choice_label(
                 q.options[CHOOSE i \in flagged : \A j \in flagged : i <= j].label)

\* the scan "if opt_label == student_answer_label: selected_option_id = opt.id":
\* the last option carrying the label wins; 0 when none does
SelectedOptionId(q, label) ==
    LET hits == {i \in 1..Len(q.options) : _normalize_choice_label(q.options[i].label) = label}
    IN  IF hits = {} THEN 0
        ELSE q.options[CHOOSE i \in hits : \A j \in hits : i >= j].id

\* the backup revision's scan breaks at the first option carrying the label
FirstOptionId(q, label) ==
    LET hits == {i \in 1..Len(q.options) : _normalize_choice_label(q.options[i].label) = label}
    IN  IF hits = {} THEN 0
        ELSE q.options[CHOOSE i \in hits : \A j \in hits : i <= j].id

\* the text of the last option carrying the label ("" when none): what the backup
\* revision's loop at lines 190-195 leaves in student_text / correct_text
LastTextOf(q, label) ==
    LET hits == {i \in 1..Len(q.options) : _normalize_choice_label(q.options[i].label) = label}
    IN  IF hits = {} THEN ""
        ELSE q.options[CHOOSE i \in hits : \A j \in hits : i >= j].text

(***************************************************************************)
(* xai/service.py: the rule-based explanation builder                      *)
(***************************************************************************)
_question_kind(stem) ==
    LET s == Lower(Strip(stem))
    IN  IF StartsWith(s, "what is") \/ StartsWith(s, "what are") \/ Contains(s, "definition")
        THEN "definition"
        ELSE IF Contains(s, "purpose") \/ Contains(s, "used for") THEN "purpose"
        ELSE IF Contains(s, "effect") \/ Contains(s, "impact") THEN "effect"
        ELSE IF Contains(s, "advantage") \/ Contains(s, "benefit") THEN "advantage"
        ELSE IF Contains(s, "difference") \/ Contains(s, "compare") THEN "comparison"
        ELSE "concept"

\* the maximal run of characters satisfying a class test that starts at i
RECURSIVE RunEnd(_, _, _)
RunEnd(s, i, wordOnly) ==
    LET ok(c) == IF wordOnly THEN IsWordChar(c) ELSE (IsLetter(c) \/ c = "-" \/ c = "'")
    IN  IF i < Len(s) /\ ok(Char(s, i + 1)) THEN RunEnd(s, i + 1, wordOnly) ELSE i

\* re.findall(r"\w+", t): the maximal runs of word characters
RECURSIVE WordsFrom(_, _)
WordsFrom(s, i) ==
    IF i > Len(s) THEN << >>
    ELSE IF IsWordChar(Char(s, i))
         THEN << SubSeq(s, i, RunEnd(s, i, TRUE)) >> \o WordsFrom(s, RunEnd(s, i, TRUE) + 1)
         ELSE WordsFrom(s, i + 1)

BenefitWords == {"improve", "improves", "increase", "accuracy", "accurate", "performance",
                 "better", "results", "efficient", "faster"}

\* re.search(r"\b(improve|...|faster)\b", text.lower())
_is_benefit_style(text) ==
    LET ws == WordsFrom(Lower(text), 1)
    IN  \E i \in 1..Len(ws) : ws[i] \in BenefitWords

_BASIC_STOPWORDS ==
    {"the", "a", "an", "and", "or", "to", "of", "in", "on", "for", "with", "by", "as",
     "is", "are", "was", "were", "be", "been", "being", "this", "that", "these", "those",
     "which", "what", "why", "how", "when", "where", "who", "whom", "it", "its",
     "use", "uses", "used", "using", "technique", "method", "approach", "context"}

\* re.findall(r"[A-Za-z][A-Za-z\-']+", s): a letter followed by at least one more
\* letter, hyphen or apostrophe, taken greedily, left to right
RECURSIVE KeywordRuns(_, _)
KeywordRuns(s, i) ==
    IF i >= Len(s) THEN << >>
    ELSE IF IsLetter(Char(s, i)) /\ RunEnd(s, i, FALSE) > i
         THEN << SubSeq(s, i, RunEnd(s, i, FALSE)) >> \o KeywordRuns(s, RunEnd(s, i, FALSE) + 1)
         ELSE KeywordRuns(s, i + 1)

_tokenize_keywords(text) ==
    SelectSeq(KeywordRuns(Lower(text), 1), LAMBDA t : Len(t) >= 3 /\ t \notin _BASIC_STOPWORDS)

\* the tokens of a that also occur in b, in a's order, without repeats, at most top_k
RECURSIVE Dedup(_)
Dedup(seq) ==
    IF Len(seq) = 0 THEN << >>
    ELSE LET front == Dedup(SubSeq(seq, 1, Len(seq) - 1))
             last == seq[Len(seq)]
         IN  IF \E i \in 1..Len(front) : front[i] = last THEN front ELSE Append(front, last)

_top_overlaps(a, b, top_k) ==
    LET bt == _tokenize_keywords(b)
        b_set == {bt[i] : i \in 1..Len(bt)}
        ordered == Dedup(SelectSeq(_tokenize_keywords(a), LAMBDA t : t \in b_set))
    IN  SubSeq(ordered, 1, IF Len(ordered) < top_k THEN Len(ordered) ELSE top_k)

\* ", ".join(seq) and friends
RECURSIVE Join(_, _)
Join(seq, sep) ==
    IF Len(seq) = 0 THEN ""
    ELSE IF Len(seq) = 1 THEN seq[1]
    ELSE seq[1] \o sep \o Join(Tail(seq), sep)

RECURSIVE ReplaceNewlines(_)
ReplaceNewlines(s) ==
    IF Len(s) = 0 THEN ""
    ELSE (IF Char(s, 1) = "\n" THEN " " ELSE Char(s, 1)) \o ReplaceNewlines(SubSeq(s, 2, Len(s)))

QuoteMax == 140

_short_quote(text, max_len) ==
    LET t == ReplaceNewlines(Strip(text))
    IN  IF Len(t) <= max_len THEN t ELSE RStrip(SubSeq(t, 1, max_len - 1)) \o "..."

\* {o.label: o.text for o in options}.get(label) or "": the last option with the label
LabelToText(options, label) ==
    LET hits == {i \in 1..Len(options) : options[i].label = label}
    IN  IF hits = {} THEN "" ELSE options[CHOOSE i \in hits : \A j \in hits : i >= j].text

KindSentence(kind) ==
    CASE kind = "definition" ->
           "This question is asking for the correct definition of the concept described in the stem."
      [] kind = "purpose" ->
           "This question is asking what the concept is used for in practice."
      [] kind = "effect" ->
           "This question is asking about the effect or outcome caused by the concept."
      [] kind = "advantage" ->
           "This question is asking for the main advantage or benefit of the concept."
      [] kind = "comparison" ->
           "This question is asking you to compare closely related ideas and choose the one that matches the stem."
      [] OTHER ->
           "This question is testing the key concept described by the stem."

\* build_explanation as both of its callers invoke it: include_evidence is left at
\* its default False, so no evidence is retrieved and key_concepts is empty.
\* options: a sequence of [label, text] (XAIOption).
build_explanation(lecture_text, question_stem, options, correct_label, student_label) ==
    LET is_correct == (student_label = correct_label)
        student_text == Strip(LabelToText(options, student_label))
        correct_text == Strip(LabelToText(options, correct_label))
        s1 == (IF is_correct THEN "Correct" ELSE "Incorrect")
              \o ". The correct answer is " \o correct_label \o "."
        kind == _question_kind(question_stem)
        q_vs_correct == _top_overlaps(question_stem, correct_text, 6)
        q_vs_student == _top_overlaps(question_stem, student_text, 6)
        correct_kw == IF Len(q_vs_correct) > 0 THEN Join(q_vs_correct, ", ")
                      ELSE "the key terms in the stem"
        student_kw == IF Len(q_vs_student) > 0 THEN Join(q_vs_student, ", ")
                      ELSE "different terms than the stem"
        unmatched == << s1,
              "I could not match your selected option label to an option text, so I cannot compare your choice precisely.",
              "The correct option " \o correct_label \o " states: \""
                  \o _short_quote(correct_text, QuoteMax) \o "\"." >>
        right == << s1, KindSentence(kind),
              (IF Len(q_vs_correct) > 0
               THEN "Your choice matches the stem keywords (" \o Join(q_vs_correct, ", ") \o "), which aligns with option "
               ELSE "Your choice matches the intended meaning of the stem, which is captured by option ")
              \o correct_label \o ": \"" \o _short_quote(correct_text, QuoteMax) \o "\"." >>
        wrong == << s1, KindSentence(kind),
              (IF _is_benefit_style(student_text) /\ kind \in {"definition", "purpose", "effect"}
               THEN "Your option focuses on a benefit/result idea, but the stem is targeting "
                    \o correct_kw \o ", which is why option " \o correct_label \o " (\""
                    \o _short_quote(correct_text, QuoteMax) \o "\") is the best match."
               ELSE "Your option emphasizes " \o student_kw \o ", but the stem points to "
                    \o correct_kw \o ", which is why option " \o correct_label \o " (\""
                    \o _short_quote(correct_text, QuoteMax) \o "\") is correct."),
              "In short, option " \o student_label \o " (\"" \o _short_quote(student_text, QuoteMax)
                    \o "\") does not answer what the stem asks, while option "
                    \o correct_label \o " directly addresses it." >>
        sentences == IF student_text = "" THEN unmatched
                     ELSE IF is_correct THEN right ELSE wrong
    IN  [ is_correct |-> is_correct,
          student_label |-> student_label,
          correct_label |-> correct_label,
          reasoning |-> Strip(Join(sentences, " ")),
          key_concepts |-> << >> ]

(***************************************************************************)
(* backup codes/agent_tools.py: the LLM explanation generator              *)
(***************************************************************************)
PromptLectureMax == 2000
ResponseMax == 100

\* the user prompt handed to call_deepseek_chat (lines 91-101)
user_prompt(lecture_text, question_stem, student_text, correct_text, is_correct, question_type) ==
    "LECTURE CONTENT:\n" \o Prefix(lecture_text, PromptLectureMax) \o "  # Limit length\n\n"
    \o "QUESTION: " \o question_stem \o "\n\n"
    \o "STUDENT'S SELECTED ANSWER: " \o student_text \o "\n"
    \o "CORRECT ANSWER: " \o correct_text \o "\n"
    \o "QUESTION TYPE: " \o question_type \o "\n"
    \o "IS STUDENT CORRECT: " \o (IF is_correct THEN "Yes" ELSE "No") \o "\n\n"
    \o "Generate explanation in the required format."

CorrectFallback == "Correct - Your answer is correct based on the lecture content."
IncorrectFallback == "Incorrect - Your answer doesn't match the lecture content. You likely chose this because the selected option doesn't align with the evidence."
GenericMisconception == " You likely chose this because the selected option doesn't match the lecture evidence."

\* the "Correct - " branch (lines 108-117)
ExtractCorrect(response) ==
    LET explanation == Strip(SubSeq(response, Find(response, "Correct - "), Len(response)))
        end == FindFrom(explanation, ".", Find(explanation, "Correct - ") + 10)
    IN  IF Contains(explanation, ".") /\ end # 0 THEN SubSeq(explanation, 1, end) ELSE explanation

\* the "Incorrect - " branch (lines 118-131)
ExtractIncorrect(response) ==
    LET found == Strip(SubSeq(response, Find(response, "Incorrect - "), Len(response)))
        explanation == IF Contains(found, "You likely chose this because") THEN found
                       ELSE found \o GenericMisconception
    IN  IF Contains(explanation, ".") THEN SubSeq(explanation, 1, RFind(explanation, "."))
        ELSE explanation

\* outcome: what call_deepseek_chat did, [raised |-> BOOLEAN, text |-> the response]
_generate_ai_explanation(lecture_text, question_stem, student_text, correct_text, is_correct, question_type, outcome) ==
    LET response == outcome.text
        fallback == IF is_correct THEN CorrectFallback ELSE IncorrectFallback
    IN  IF lecture_text = "" THEN fallback
        ELSE IF outcome.raised THEN fallback
        ELSE IF Contains(response, "Correct - ") THEN ExtractCorrect(response)
        ELSE IF Contains(response, "Incorrect - ") THEN ExtractIncorrect(response)
        ELSE IF is_correct THEN "Correct - " \o Prefix(response, ResponseMax) \o "."
        ELSE "Incorrect - " \o Prefix(response, ResponseMax) \o "." \o GenericMisconception

\* the stem classification of the backup explain tool (lines 199-208)
BackupQuestionType(stem) ==
    LET s == Lower(stem)
    IN  IF Contains(s, "definition") \/ Contains(s, "what is") THEN "definition"
        ELSE IF Contains(s, "purpose") \/ Contains(s, "why") THEN "purpose"
        ELSE IF Contains(s, "difference") \/ Contains(s, "compare") THEN "comparison"
        ELSE IF Contains(s, "example") \/ Contains(s, "instance") THEN "example"
        ELSE "concept"

(***************************************************************************)
(* State.                                                                  *)
(*   explanations  the explanations table (models.Explanation), in order   *)
(*                 of insertion; a row's id is its position                *)
(*   call          each caller's running call of explain_mcq_answer_tool   *)
(*   ncalls        operations started so far (bounds the model)            *)
(*   router        one call of call_hybrid_llm                             *)
(*   gen           one call of _generate_ai_explanation                    *)
(*   norm          one call of _normalize_choice_label                     *)
(*   rest          one request to POST /xai/explain                        *)
(*   chat          one call of ChatManager.send_message                    *)
(***************************************************************************)
VARIABLES explanations, call, ncalls, router, gen, norm, rest, chat,
          evid, agents, demo, mcq, cleaner, store

\* the explanation tool, the routers, the REST and the chat layer
core == << explanations, call, ncalls, router, gen, norm, rest, chat >>
\* evidence retrieval, agent configuration, chatbot demo state, MCQ generation,
\* response cleaning and the question tables
aux == << evid, agents, demo, mcq, cleaner, store >>
vars == << core, aux >>

MaxCalls == 3

Callers == {"c1", "c2"}

\* the source tag each revision of explain_mcq_answer_tool writes
\* (live: agent_tools.py line 172, backup: backup codes/agent_tools.py line 256)
SourceTag(rev) == IF rev = "live" THEN "ai_agent_generated" ELSE "ai_generated"

\* Inputs of the explain tool.  Both callers (the agent, by its instruction, and
\* ChatManager) pass question_id and student_answer_label only, so lecture_text,
\* question_stem and options are None.
QuestionIds == {42, 99}
RawLabels == {"option b", "a."}
\* what call_deepseek_chat can hand back: the router's text, or "" when both
\* backends failed
Responses == {"Sure! Correct - Plants use light. More text.", ""}
\* payloads of save_or_update_explanation (schemas.ExplanationCreate)
Payloads == {[content |-> "Correct - teacher note.", source |-> "manual"]}

Row(i, q, o, c, s) == [id |-> i, question_id |-> q, option_id |-> o, content |-> c, source |-> s]

NoOut == [kind |-> "none", status |-> "", source |-> "", reasoning |-> ""]
ErrorOut(msg) == [kind |-> "error", status |-> "", source |-> "", reasoning |-> msg]
\* the call ended with an exception reaching the caller instead of a return value
RaisedOut(msg) == [kind |-> "raised", status |-> "", source |-> "", reasoning |-> msg]

Idle == [pc |-> "idle", rev |-> "live", qid |-> 0, label |-> "", opt |-> 0, correct |-> "",
         hit |-> FALSE, content |-> "", saved |-> "none", out |-> NoOut,
         session |-> "none"]

\* what one backend call did: it returned text, or it raised (text: the message)
Returned(t) == [raised |-> FALSE, text |-> t]
Raised(msg) == [raised |-> TRUE, text |-> msg]
NoOutcome == [raised |-> FALSE, text |-> "(not attempted)"]

RouterIdle == [pc |-> "idle", impl |-> "", online_model |-> "", has_key |-> FALSE,
               user_prompt |-> "", sent |-> "", attempts |-> << >>, primary |-> NoOutcome, fallback |-> NoOutcome,
               result |-> ""]

GenIdle == [pc |-> "idle", lecture_text |-> "", question_stem |-> "", student_text |-> "",
            correct_text |-> "", is_correct |-> FALSE, prompt |-> "", sent |-> FALSE,
            response |-> NoOutcome, result |-> ""]

\* a Python argument of _normalize_choice_label: a str or None
PyStr(v) == [type |-> "str", value |-> v]
PyNone == [type |-> "NoneType", value |-> ""]

NormIdle == [pc |-> "idle", raw |-> PyNone, result |-> ""]

\* no response body yet
NoResp == [is_correct |-> FALSE, student_label |-> "", correct_label |-> "", reasoning |-> "",
           key_concepts |-> << >>]

\* the stateless fields of XAIExplanationRequest; "" and << >> stand for a field
\* that is absent (None) or empty, which the handler does not tell apart
NoStateless == [question_stem |-> "", options |-> << >>, correct_label |-> "", lecture_text |-> ""]

RestIdle == [pc |-> "idle", rev |-> "", question_id |-> 0, student_answer_label |-> "",
             payload |-> NoStateless, include_evidence |-> FALSE, fault |-> FALSE,
             status |-> 0, detail |-> "",
             resp |-> NoResp]

ChatIdle == [pc |-> "idle", user_msg |-> "", use_offline |-> FALSE, intercepted |-> FALSE,
             qid |-> 0, label |-> "", tool |-> "none", origin |-> "none", out |-> NoOut,
             text |-> ""]

EvidIdle == [pc |-> "idle", lecture_text |-> "", top_k |-> 0, sentences |-> << >>,
             scores |-> << >>, order |-> << >>, raised |-> FALSE, results |-> << >>]
AgentsIdle == [pc |-> "idle", pair |-> "", failover |-> FALSE, primary_timeout |-> 0,
               fallback_timeout |-> 0, waited_primary |-> 0, waited_fallback |-> 0,
               result |-> ""]
\* tools._ChatState() as constructed at import: the module-level _STATE
ChatStateInit == [lecture_id |-> "", lecture_title |-> "", lecture_text |-> "",
                  last_questions |-> << >>, verbosity |-> "short"]
\* _STATE, and the last tool call made: which chat session made it and its result
DemoIdle == [state |-> ChatStateInit, actor |-> "", op |-> "",
             result |-> [status |-> "", error_message |-> ""]]
\* generate_mcqs_with_llm before it is called: the controller's locals
NoMcqOutcome == [kind |-> "none", exc |-> "", message |-> "", value |-> << >>]
McqIdle == [pc |-> "idle", num_questions |-> 0, diff_norm |-> "", k |-> 0,
            collected |-> << >>, seen |-> {}, remaining |-> 0, batches_done |-> 0,
            tries |-> 0, last_err |-> "", outcome |-> NoMcqOutcome]
\* clean_agent_response before it is called
CleanerIdle == [pc |-> "idle", rev |-> "", agent_text |-> "", response |-> ""]
\* the questions, options and answer_keys tables before anything is saved, and
\* the outcome of the last save_generated_questions call
StoreIdle == [questions |-> << >>, options |-> << >>, answer_keys |-> << >>,
              created_ids |-> << >>, raised |-> ""]

\* the cache lookup of each revision: the rows .first() may return.  The query has
\* no ORDER BY, so which matching row comes first is the database's choice.
LookupMatches(rev, qid, oid) ==
    {i \in 1..Len(explanations) :
        /\ explanations[i].question_id = qid
        /\ explanations[i].option_id = oid
        /\ (rev = "backup" => explanations[i].source = "ai_generated")}

\* step 4 of the live tool: the fields interpolated into tool_output
ToolOutput(is_correct, source, reasoning) ==
    [kind |-> "ok",
     status |-> IF is_correct THEN "CORRECT" ELSE "INCORRECT",
     source |-> source,
     reasoning |-> reasoning]

\* the backup tool returns the explanation text alone
BackupOutput(reasoning) == [kind |-> "ok", status |-> "", source |-> "", reasoning |-> reasoning]

Init ==
    /\ explanations = << >>
    /\ call = [c \in Callers |-> Idle]
    /\ ncalls = 0
    /\ router = RouterIdle
    /\ gen = GenIdle
    /\ norm = NormIdle
    /\ rest = RestIdle
    /\ chat = ChatIdle
    /\ evid = EvidIdle
    /\ agents = AgentsIdle
    /\ demo = DemoIdle
    /\ mcq = McqIdle
    /\ cleaner = CleanerIdle
    /\ store = StoreIdle

Started(rev, qid, label, oid, correct) ==
    [Idle EXCEPT !.pc = "generate", !.rev = rev, !.qid = qid, !.label = label, !.opt = oid,
                 !.correct = correct, !.session = "open"]

\* every return leaves through the finally clause, which closes the session
Failed(rev, qid, msg) ==
    [Idle EXCEPT !.pc = "done", !.rev = rev, !.qid = qid, !.out = ErrorOut(msg),
                 !.session = "closed"]

Finished(rec, out) == [rec EXCEPT !.pc = "done", !.out = out, !.session = "closed"]

\* explain_mcq_answer_tool (live), lines 82-139: normalize, resolve, cache check
LiveBegin(c, qid, raw) ==
    LET label == _normalize_choice_label(raw)
        q == QuestionStore[qid]
        correct == CorrectLabelOf(q)
        oid == SelectedOptionId(q, label)
        rec == Started("live", qid, label, oid, correct)
        matches == LookupMatches("live", qid, oid)
    IN  /\ call[c].pc \in {"idle", "done"}
        /\ ncalls < MaxCalls
        /\ ncalls' = ncalls + 1
        /\ UNCHANGED << explanations, router, gen, norm, rest, chat, aux >>
        /\ IF ~HasQuestion(qid)
           THEN call' = [call EXCEPT ![c] =
                            Failed("live", qid, "Error: Question ID not found in database.")]
           ELSE IF correct = ""
           THEN call' = [call EXCEPT ![c] =
                            Failed("live", qid, "Error: Could not determine correct answer.")]
           ELSE IF oid = 0
           THEN call' = [call EXCEPT ![c] =
                            Failed("live", qid, "Error: Option '" \o label
                                                \o "' does not exist for this question.")]
           ELSE IF matches # {}
           THEN \E i \in matches :
                   call' = [call EXCEPT ![c] = Finished(
                               [rec EXCEPT !.hit = TRUE, !.content = explanations[i].content],
                               ToolOutput(label = correct, "DATABASE (VERIFIED)",
                                          explanations[i].content))]
           ELSE call' = [call EXCEPT ![c] = rec]

\* LiveGenerate writing the cache row speculatively, before the generation
\* has returned its text
LiveGenerateWritesFirst(c) ==
    /\ call[c].pc = "generate"
    /\ call[c].rev = "live"
    /\ explanations' = Append(explanations,
                              Row(Len(explanations) + 1, call[c].qid, call[c].opt, "",
                                  "ai_agent_generated"))
    /\ call' = [call EXCEPT ![c] = [call[c] EXCEPT !.pc = "persist"]]
    /\ UNCHANGED << ncalls, router, gen, norm, rest, chat, aux >>

\* lines 141-164: the cache miss generates with build_explanation
LiveGenerate(c) ==
    LET r == call[c]
        q == QuestionStore[r.qid]
        safe_options == [i \in 1..Len(q.options) |->
                            [label |-> _normalize_choice_label(q.options[i].label),
                             text |-> q.options[i].text]]
        generated_response == build_explanation(q.lecture, q.stem, safe_options, r.correct, r.label)
    IN  /\ r.pc = "generate"
        /\ r.rev = "live"
        /\ call' = [call EXCEPT ![c] = [r EXCEPT !.pc = "persist",
                                                  !.content = generated_response.reasoning]]
        /\ UNCHANGED << explanations, ncalls, router, gen, norm, rest, chat, aux >>

\* LivePersist without the inner try/except: a failed commit reaches the outer
\* handler, which answers with the error text
LivePersistRaises(c, committed) ==
    LET r == call[c]
    IN  /\ r.pc = "persist"
        /\ r.rev = "live"
        /\ explanations' = IF committed
                           THEN Append(explanations,
                                       Row(Len(explanations) + 1, r.qid, r.opt, r.content,
                                           "ai_agent_generated"))
                           ELSE explanations
        /\ call' = [call EXCEPT ![c] =
                        IF committed
                        THEN Finished([r EXCEPT !.saved = "ok"],
                                      ToolOutput(r.label = r.correct, "AI_GENERATED (FRESH)",
                                                 r.content))
                        ELSE Finished([r EXCEPT !.saved = "failed"],
                                      ErrorOut("Error retrieving data: commit failed"))]
        /\ UNCHANGED << ncalls, router, gen, norm, rest, chat, aux >>

\* LivePersist as an upsert: a row already stored for the option is overwritten
LivePersistUpsert(c, committed) ==
    LET r == call[c]
        rows == {i \in 1..Len(explanations) :
                    /\ explanations[i].question_id = r.qid
                    /\ explanations[i].option_id = r.opt}
    IN  /\ r.pc = "persist"
        /\ r.rev = "live"
        /\ IF ~committed THEN explanations' = explanations
           ELSE IF rows # {}
           THEN \E i \in rows :
                   explanations' = [explanations EXCEPT ![i].content = r.content,
                                                        ![i].source = "ai_agent_generated"]
           ELSE explanations' = Append(explanations,
                                       Row(Len(explanations) + 1, r.qid, r.opt, r.content,
                                           "ai_agent_generated"))
        /\ call' = [call EXCEPT ![c] = Finished(
                        [r EXCEPT !.saved = IF committed THEN "ok" ELSE "failed"],
                        ToolOutput(r.label = r.correct, "AI_GENERATED (FRESH)", r.content))]
        /\ UNCHANGED << ncalls, router, gen, norm, rest, chat, aux >>

\* lines 166-217: db.add + db.commit, or the write fails and is rolled back; then
\* the output is built either way
LivePersist(c, committed) ==
    LET r == call[c]
    IN  /\ r.pc = "persist"
        /\ r.rev = "live"
        /\ explanations' = IF committed
                           THEN Append(explanations,
                                       Row(Len(explanations) + 1, r.qid, r.opt, r.content,
                                           "ai_agent_generated"))
                           ELSE explanations
        /\ call' = [call EXCEPT ![c] = Finished(
                        [r EXCEPT !.saved = IF committed THEN "ok" ELSE "failed"],
                        ToolOutput(r.label = r.correct, "AI_GENERATED (FRESH)", r.content))]
        /\ UNCHANGED << ncalls, router, gen, norm, rest, chat, aux >>

\* explain_mcq_answer_tool (backup codes), lines 158-236: normalize, resolve, cache
\* check filtered by source == "ai_generated".  A label no option carries is not an
\* error here: the call goes on to generate, without a cache key.
BackupBegin(c, qid, raw) ==
    LET label == _normalize_choice_label(raw)
        q == QuestionStore[qid]
        correct == BackupCorrectLabelOf(q)
        oid == FirstOptionId(q, label)
        rec == Started("backup", qid, label, oid, correct)
        matches == LookupMatches("backup", qid, oid)
    IN  /\ call[c].pc \in {"idle", "done"}
        /\ ncalls < MaxCalls
        /\ ncalls' = ncalls + 1
        /\ UNCHANGED << explanations, router, gen, norm, rest, chat, aux >>
        /\ IF ~HasQuestion(qid)
           THEN call' = [call EXCEPT ![c] =
                            Failed("backup", qid, "Error: Question ID not found in database.")]
           ELSE IF correct = ""
           THEN call' = [call EXCEPT ![c] =
                            Failed("backup", qid, "Error: Could not determine correct answer.")]
           ELSE IF oid # 0 /\ matches # {}
           THEN \E i \in matches :
                   call' = [call EXCEPT ![c] = Finished(
                               [rec EXCEPT !.hit = TRUE, !.content = explanations[i].content],
                               BackupOutput(explanations[i].content))]
           ELSE call' = [call EXCEPT ![c] = rec]

\* lines 238-247: generate through _generate_ai_explanation; response is what
\* call_deepseek_chat returned
BackupGenerate(c, response) ==
    LET r == call[c]
        q == QuestionStore[r.qid]
        ai_explanation == _generate_ai_explanation(
                              q.lecture, q.stem, LastTextOf(q, r.label), LastTextOf(q, r.correct),
                              r.label = r.correct, BackupQuestionType(q.stem),
                              [raised |-> FALSE, text |-> response])
    IN  /\ r.pc = "generate"
        /\ r.rev = "backup"
        /\ call' = [call EXCEPT ![c] = [r EXCEPT !.pc = "persist", !.content = ai_explanation]]
        /\ UNCHANGED << explanations, ncalls, router, gen, norm, rest, chat, aux >>

\* lines 249-265: save under source "ai_generated" when an option was selected
BackupPersist(c, committed) ==
    LET r == call[c]
        write == r.opt # 0 /\ committed
    IN  /\ r.pc = "persist"
        /\ r.rev = "backup"
        /\ explanations' = IF write
                           THEN Append(explanations,
                                       Row(Len(explanations) + 1, r.qid, r.opt, r.content,
                                           "ai_generated"))
                           ELSE explanations
        /\ call' = [call EXCEPT ![c] = Finished(
                        [r EXCEPT !.saved = IF write THEN "ok"
                                            ELSE IF r.opt # 0 THEN "failed" ELSE "none"],
                        BackupOutput(r.content))]
        /\ UNCHANGED << ncalls, router, gen, norm, rest, chat, aux >>

\* mcq_management/service.py save_or_update_explanation: overwrite the first
\* explanation row of the question (no ORDER BY), or insert one without option_id
save_or_update_explanation(question_id, payload) ==
    LET rows == {i \in 1..Len(explanations) : explanations[i].question_id = question_id}
    IN  /\ ncalls < MaxCalls
        /\ ncalls' = ncalls + 1
        /\ IF rows # {}
           THEN \E i \in rows :
                   explanations' = [explanations EXCEPT ![i].content = payload.content,
                                                        ![i].source = payload.source]
           ELSE explanations' = Append(explanations,
                                       Row(Len(explanations) + 1, question_id, 0,
                                           payload.content, payload.source))
        /\ UNCHANGED << call, router, gen, norm, rest, chat, aux >>

Next ==
    \/ \E c \in Callers, qid \in QuestionIds, raw \in RawLabels : LiveBegin(c, qid, raw)
    \/ \E c \in Callers : LiveGenerate(c)
    \/ \E c \in Callers, committed \in BOOLEAN : LivePersist(c, committed)
    \/ \E c \in Callers, qid \in QuestionIds, raw \in RawLabels : BackupBegin(c, qid, raw)
    \/ \E c \in Callers, response \in Responses : BackupGenerate(c, response)
    \/ \E c \in Callers, committed \in BOOLEAN : BackupPersist(c, committed)
    \/ \E qid \in {q \in QuestionIds : HasQuestion(q)}, payload \in Payloads :
          save_or_update_explanation(qid, payload)

Spec == Init /\ [][Next]_vars

(***************************************************************************)
(* The hybrid model router: core/llm_client.py call_hybrid_llm (behind     *)
(* call_deepseek_chat and call_deepseek_reasoner) and                      *)
(* mcq_chatbot/hybrid_model.py HybridModel.run_async.                      *)
(***************************************************************************)
Routers == {"call_hybrid_llm", "run_async"}
\* online_model of the two wrappers (llm_client.py lines 119 and 129)
OnlineModels == {"deepseek-chat", "deepseek-reasoner"}
\* what the networked backend can do when an API key is configured
PrimaryOutcomes == {Raised("ReadTimeout"), Raised("401 Unauthorized"),
                    Returned("primary text"), Returned("other primary text")}
\* _call_deepseek_raw without a key (line 27)
NoKeyOutcome == Raised("No DeepSeek API Key found.")
\* what the local backend can do; data.get("response", "") may be empty
FallbackOutcomes == {Raised("ConnectError"), Returned("fallback text"), Returned("")}

\* user prompts handed to the router
RouterPrompts == {"Generate explanation in the required format.",
                  "Generate EXACTLY 3 high-quality MCQs about the material above."}
SystemPrompt == "You are an AI tutor explaining MCQ answers."
\* _call_ollama_raw line 61: the single prompt block the local backend receives
OllamaPrompt(system_prompt, prompt) ==
    "System: " \o system_prompt \o "\n\nUser: " \o prompt \o "\n\nAssistant:"

BothUnavailable == "System Error: Both Online and Offline AI are unavailable."

RouterRest == << explanations, call, ncalls, gen, norm, rest, chat, aux >>

\* a caller enters the router
RouterCall(impl, online_model, has_key, prompt) ==
    /\ router.pc = "idle"
    /\ router' = [RouterIdle EXCEPT !.pc = "TryPrimary", !.impl = impl,
                                    !.online_model = online_model, !.has_key = has_key,
                                    !.user_prompt = prompt]
    /\ UNCHANGED RouterRest

\* TryPrimary with one retry of the networked backend before failing over
TryPrimaryRetry(outcome) ==
    /\ router.pc = "TryPrimary"
    /\ router.impl = "call_hybrid_llm"
    /\ outcome = NoKeyOutcome <=> ~router.has_key
    /\ router' = [router EXCEPT !.attempts = Append(@, "primary"),
                                !.sent = IF router.has_key THEN router.user_prompt ELSE @,
                                !.primary = outcome,
                                !.pc = IF ~outcome.raised THEN "done"
                                       ELSE IF router.attempts = << >> THEN "TryPrimary"
                                       ELSE "TryFallback",
                                !.result = IF outcome.raised THEN @ ELSE outcome.text]
    /\ UNCHANGED RouterRest

\* call_hybrid_llm lines 94-99: one attempt of _call_deepseek_raw; its text is
\* returned, any exception moves on to the offline attempt
TryPrimary(outcome) ==
    /\ router.pc = "TryPrimary"
    /\ router.impl = "call_hybrid_llm"
    /\ outcome = NoKeyOutcome <=> ~router.has_key
    /\ router' = [router EXCEPT !.attempts = Append(@, "primary"),
                                !.sent = IF router.has_key THEN router.user_prompt ELSE @,
                                !.primary = outcome,
                                !.pc = IF outcome.raised THEN "TryFallback" ELSE "done",
                                !.result = IF outcome.raised THEN @ ELSE outcome.text]
    /\ UNCHANGED RouterRest

\* call_hybrid_llm lines 102-109: one attempt of _call_ollama_raw; "" when it raises
TryFallback(outcome) ==
    /\ router.pc = "TryFallback"
    /\ router.impl = "call_hybrid_llm"
    /\ router' = [router EXCEPT !.attempts = Append(@, "fallback"),
                                !.sent = OllamaPrompt(SystemPrompt, router.user_prompt),
                                !.fallback = outcome,
                                !.pc = "done",
                                !.result = IF outcome.raised THEN "" ELSE outcome.text]
    /\ UNCHANGED RouterRest

\* HybridModel.run_async lines 24-36: the online completion is attempted only when
\* DEEPSEEK_API_KEY is set; an exception is swallowed
RunAsyncOnline(outcome) ==
    /\ router.pc = "TryPrimary"
    /\ router.impl = "run_async"
    /\ router.has_key
    /\ router' = [router EXCEPT !.attempts = Append(@, "primary"),
                                !.sent = router.user_prompt,
                                !.primary = outcome,
                                !.pc = IF outcome.raised THEN "TryFallback" ELSE "done",
                                !.result = IF outcome.raised THEN @ ELSE outcome.text]
    /\ UNCHANGED RouterRest

\* without a key the online block is skipped
RunAsyncSkipOnline ==
    /\ router.pc = "TryPrimary"
    /\ router.impl = "run_async"
    /\ ~router.has_key
    /\ router' = [router EXCEPT !.pc = "TryFallback"]
    /\ UNCHANGED RouterRest

\* HybridModel.run_async lines 39-48: the offline completion, or the error message
RunAsyncOffline(outcome) ==
    /\ router.pc = "TryFallback"
    /\ router.impl = "run_async"
    /\ router' = [router EXCEPT !.attempts = Append(@, "fallback"),
                                !.sent = router.user_prompt,
                                !.fallback = outcome,
                                !.pc = "done",
                                !.result = IF outcome.raised THEN BothUnavailable
                                           ELSE outcome.text]
    /\ UNCHANGED RouterRest

\* the router has returned
RouterReturn ==
    /\ router.pc = "done"
    /\ router' = RouterIdle
    /\ UNCHANGED RouterRest

RouterNext ==
    \/ \E impl \in Routers, m \in OnlineModels, k \in BOOLEAN, p \in RouterPrompts :
          RouterCall(impl, m, k, p)
    \/ \E o \in PrimaryOutcomes \cup {NoKeyOutcome} : TryPrimary(o)
    \/ \E o \in FallbackOutcomes : TryFallback(o)
    \/ \E o \in PrimaryOutcomes : RunAsyncOnline(o)
    \/ RunAsyncSkipOnline
    \/ \E o \in FallbackOutcomes : RunAsyncOffline(o)
    \/ RouterReturn

SpecRouter == Init /\ [][RouterNext]_vars

(***************************************************************************)
(* backup codes/agent_tools.py _generate_ai_explanation, step by step: the *)
(* early return without lecture text, the prompt handed to                 *)
(* call_deepseek_chat, and the parsing of what comes back.                 *)
(***************************************************************************)
GenLectures == {"", QuestionStore[42].lecture}
GenStems == {QuestionStore[42].stem, QuestionStore[7].stem}
\* option texts of question 42
GenOptionTexts == {"Photosynthesis", "Respiration", "Osmosis"}
\* raw outputs of call_deepseek_chat: well-formed for either verdict, with a
\* preamble, without the format, empty; or the call raises
GenOutcomes == {Returned("Correct - Plants use light. More text."),
                Returned("Sure! Correct - Plants use light. More text."),
                Returned("Correct - no period"),
                Returned("Incorrect - Respiration releases energy."),
                Returned("Incorrect - No. You likely chose this because of a mix-up. Extra"),
                Returned("Plants use photosynthesis"),
                Returned(""),
                Raised("argument of type 'NoneType' is not iterable")}

GenRest == << explanations, call, ncalls, router, norm, rest, chat, aux >>

\* lines 62-70: the arguments arrive; without lecture text the fixed fallback is
\* returned and no prompt is built
GenCall(lecture_text, question_stem, student_text, correct_text, is_correct) ==
    /\ gen.pc = "idle"
    /\ gen' = [GenIdle EXCEPT
                 !.lecture_text = lecture_text, !.question_stem = question_stem,
                 !.student_text = student_text, !.correct_text = correct_text,
                 !.is_correct = is_correct,
                 !.pc = IF lecture_text = "" THEN "done" ELSE "prompt",
                 !.result = IF lecture_text = ""
                            THEN _generate_ai_explanation(lecture_text, question_stem,
                                     student_text, correct_text, is_correct,
                                     BackupQuestionType(question_stem), NoOutcome)
                            ELSE ""]
    /\ UNCHANGED GenRest

\* lines 91-105: the user prompt is built and handed to call_deepseek_chat
GenSend ==
    /\ gen.pc = "prompt"
    /\ gen' = [gen EXCEPT !.pc = "await", !.sent = TRUE,
                          !.prompt = user_prompt(gen.lecture_text, gen.question_stem,
                                         gen.student_text, gen.correct_text, gen.is_correct,
                                         BackupQuestionType(gen.question_stem))]
    /\ UNCHANGED GenRest

\* lines 105-145: the response is parsed, or the exception handler answers
GenReceive(outcome) ==
    /\ gen.pc = "await"
    /\ gen' = [gen EXCEPT !.pc = "done", !.response = outcome,
                          !.result = _generate_ai_explanation(gen.lecture_text,
                                         gen.question_stem, gen.student_text, gen.correct_text,
                                         gen.is_correct, BackupQuestionType(gen.question_stem),
                                         outcome)]
    /\ UNCHANGED GenRest

\* the explanation has been handed to the caller
GenReturn ==
    /\ gen.pc = "done"
    /\ gen' = GenIdle
    /\ UNCHANGED GenRest

\* the explain tool passes is_correct = (student_label == correct_label) and the
\* texts of those two options; the options of a question have distinct texts
GenNext ==
    \/ \E l \in GenLectures, q \in GenStems, st \in GenOptionTexts, ct \in GenOptionTexts :
          GenCall(l, q, st, ct, st = ct)
    \/ GenSend
    \/ \E o \in GenOutcomes : GenReceive(o)
    \/ GenReturn

SpecGen == Init /\ [][GenNext]_vars

(***************************************************************************)
(* Properties of the explanation cache (Spec).                             *)
(***************************************************************************)
\* caller c starts a call of explain_mcq_answer_tool in this step
BeginsCall(c) == call[c].pc \in {"idle", "done"} /\ call'[c] # call[c]

\* caller c's call stores or skips its write in this step
PersistsCall(c) == call[c].pc = "persist" /\ call'[c] # call[c]

\* the rows held for the call's (question_id, option_id) under the source tag of
\* the call's revision
StoredUnderVersion(r) ==
    {i \in 1..Len(explanations) :
        /\ explanations[i].question_id = r.qid
        /\ explanations[i].option_id = r.opt
        /\ explanations[i].source = SourceTag(r.rev)}

MostRecent(rows) == CHOOSE i \in rows : \A j \in rows : j <= i

\* C1: once an explanation is stored for (question_id, label) under a version, a
\* later explain call for the same pair under that version is answered from the
\* cache, without generating, and returns exactly the stored content.
C1_LaterCallReturnsStored ==
    [][\A c \in Callers :
          (BeginsCall(c) /\ call'[c].opt # 0 /\ StoredUnderVersion(call'[c]) # {})
          => /\ call'[c].pc = "done"
             /\ call'[c].hit
             /\ \A i \in StoredUnderVersion(call'[c]) :
                    call'[c].out.reasoning = explanations[i].content]_vars

\* C2: a lookup under the active version returns only a row whose source tag is
\* that version; when only rows of other versions exist the call misses and goes
\* on to generate.
C2_LookupMatchesActiveVersion ==
    [][\A c \in Callers :
          (BeginsCall(c) /\ call'[c].opt # 0)
          => /\ call'[c].hit =>
                    \E i \in StoredUnderVersion(call'[c]) :
                        call'[c].out.reasoning = explanations[i].content
             /\ StoredUnderVersion(call'[c]) = {} => call'[c].pc = "generate"]_vars

C4_AtMostOneEntryPerKey ==
    \A i, j \in 1..Len(explanations) :
        (/\ explanations[i].question_id = explanations[j].question_id
         /\ explanations[i].option_id = explanations[j].option_id
         /\ explanations[i].source = explanations[j].source) => i = j

\* C5: when several rows are stored for the key under the active version, the
\* lookup returns the most recently created one.
C5_LookupReturnsMostRecent ==
    [][\A c \in Callers :
          (BeginsCall(c) /\ call'[c].opt # 0
             /\ Cardinality(StoredUnderVersion(call'[c])) >= 2)
          => /\ call'[c].hit
             /\ call'[c].out.reasoning =
                    explanations[MostRecent(StoredUnderVersion(call'[c]))].content]_vars

\* C6: a call that has generated an explanation returns it as a successful result
\* whether or not the cache write succeeds; a failed write leaves the table as it
\* was.
C6_WriteFailureStillReturns ==
    [][\A c \in Callers :
          PersistsCall(c)
          => /\ call'[c].pc = "done"
             /\ call'[c].out.kind = "ok"
             /\ call'[c].out.reasoning = call[c].content
             /\ call'[c].saved # "ok" => explanations' = explanations
             /\ call'[c].saved = "ok" => Len(explanations') = Len(explanations) + 1]_vars

\* a live call whose commit failed has returned its generated explanation
C6_Witness ==
    \E c \in Callers :
        /\ call[c].pc = "done" /\ call[c].rev = "live" /\ call[c].saved = "failed"
        /\ call[c].out.kind = "ok" /\ call[c].out.source = "AI_GENERATED (FRESH)"
        /\ call[c].out.reasoning = call[c].content /\ call[c].content # ""
        /\ StoredUnderVersion(call[c]) = {}

(***************************************************************************)
(* Properties of _generate_ai_explanation (SpecGen).                       *)
(***************************************************************************)
\* C7: whatever the model answered, the returned explanation begins with
\* "Correct" when the caller's verdict is correct and with "Incorrect" when it is
\* not.
C7_PrefixMatchesVerdict ==
    gen.pc = "done" =>
        IF gen.is_correct THEN StartsWith(gen.result, "Correct")
        ELSE StartsWith(gen.result, "Incorrect")

\* C8: for an incorrect answer the prompt handed to the backend does not carry
\* the correct option's text: the call with any other correct option text (and
\* the same other arguments) sends the same prompt.
C8_PromptHidesCorrectText ==
    (gen.sent /\ ~gen.is_correct) =>
        \A ct \in GenOptionTexts \ {gen.student_text} :
            user_prompt(gen.lecture_text, gen.question_stem, gen.student_text, ct,
                        gen.is_correct, BackupQuestionType(gen.question_stem)) = gen.prompt

(***************************************************************************)
(* Properties of the hybrid model router (SpecRouter).                     *)
(***************************************************************************)
Attempted(backend) == \E i \in 1..Len(router.attempts) : router.attempts[i] = backend

\* C9: the router returns the primary's text when the primary succeeds, the
\* fallback's text when the primary raises and the fallback succeeds, and "" when
\* both raise.
C9_RouterResult ==
    router.pc = "done" =>
        /\ (Attempted("primary") /\ ~router.primary.raised)
              => router.result = router.primary.text
        /\ (Attempted("primary") /\ router.primary.raised
               /\ Attempted("fallback") /\ ~router.fallback.raised)
              => router.result = router.fallback.text
        /\ (Attempted("primary") /\ router.primary.raised
               /\ Attempted("fallback") /\ router.fallback.raised)
              => router.result = ""

\* C10: within one call of call_hybrid_llm each backend is attempted at most once,
\* the fallback only after the primary attempt raised, and never once the primary
\* has returned text.
C10_SingleAttemptFailover ==
    router.impl = "call_hybrid_llm" =>
        /\ router.attempts \in {<< >>, <<"primary">>, <<"primary", "fallback">>}
        /\ Attempted("fallback") => router.primary.raised
        /\ (Attempted("primary") /\ ~router.primary.raised) =>
              (router.attempts = <<"primary">> /\ router.pc = "done")
        /\ router.pc = "TryFallback" => router.primary.raised

\* call_hybrid_llm has failed over: one primary attempt raised, then one fallback
\* attempt answered
C10_Witness ==
    /\ router.impl = "call_hybrid_llm" /\ router.pc = "done"
    /\ router.attempts = <<"primary", "fallback">>
    /\ router.primary.raised /\ ~router.fallback.raised
    /\ router.result = router.fallback.text

\* C11: when the backend call raises, the generator does not raise and returns
\* "<Verdict> - (Error: <message>)." with the caller's verdict word.
C11_ErrorFallbackTemplate ==
    (gen.pc = "done" /\ gen.response.raised) =>
        gen.result = (IF gen.is_correct THEN "Correct" ELSE "Incorrect")
                     \o " - (Error: " \o gen.response.text \o ")."

(***************************************************************************)
(* explain_mcq_answer_tool, one caller, over every kind of question and    *)
(* raw label: the resolve step and what follows it (SpecResolve).          *)
(***************************************************************************)
ResolveCalls == 1

\* a keyed question, one keyed only by an is_correct flag, one without any correct
\* option, one with a punctuation-only option label, and an id the store does not hold
ResolveQuestionIds == {42, 7, 8, 9, 99}
\* raw labels as the agent or ChatManager pass them
ResolveLabels == {"A", "b", "option c", "Option D", "a.", ": B", "E", "Option", "1", "", "  "}

ResolveLive(qid, raw) == ncalls < ResolveCalls /\ LiveBegin("c1", qid, raw)

ResolveBackup(qid, raw) == ncalls < ResolveCalls /\ BackupBegin("c1", qid, raw)

ResolveNext ==
    \/ \E qid \in ResolveQuestionIds, raw \in ResolveLabels : ResolveLive(qid, raw)
    \/ LiveGenerate("c1")
    \/ \E committed \in BOOLEAN : LivePersist("c1", committed)
    \/ \E qid \in ResolveQuestionIds, raw \in ResolveLabels : ResolveBackup(qid, raw)
    \/ \E response \in Responses : BackupGenerate("c1", response)
    \/ \E committed \in BOOLEAN : BackupPersist("c1", committed)

SpecResolve == Init /\ [][ResolveNext]_vars

(***************************************************************************)
(* Properties of the resolve step (SpecResolve).                           *)
(***************************************************************************)
\* the store holds no usable data for the call: no such question, no answer key
\* and no option flagged correct, or no option carrying the call's label
IntegrityFault(r) ==
    \/ ~HasQuestion(r.qid)
    \/ LET q == QuestionStore[r.qid]
       IN  \/ q.answer_key = 0 /\ \A i \in 1..Len(q.options) : ~q.options[i].is_correct
           \/ \A i \in 1..Len(q.options) : _normalize_choice_label(q.options[i].label) # r.label

\* C12: a call that meets a data-integrity error (unknown question, no determinable
\* correct label, no option carrying the label) ends with an error result, without
\* cache hit, generation or cache write.
C12_IntegrityErrorsTerminal ==
    \A c \in Callers :
        (call[c].pc # "idle" /\ IntegrityFault(call[c]))
        => /\ call[c].pc = "done"
           /\ call[c].out.kind = "error"
           /\ ~call[c].hit
           /\ call[c].content = ""
           /\ call[c].saved = "none"

\* C13: a live call whose raw label normalizes to the empty string ends with an
\* error result for every question, without cache hit, generation or cache write.
C13_EmptyLabelIsInputError ==
    \A c \in Callers :
        (call[c].pc # "idle" /\ call[c].rev = "live" /\ call[c].label = "")
        => /\ call[c].pc = "done"
           /\ call[c].out.kind = "error"
           /\ ~call[c].hit
           /\ call[c].content = ""
           /\ call[c].saved = "none"

(***************************************************************************)
(* The REST layer: POST /xai/explain (xai/router.py explain_answer and its *)
(* earlier revision in backup codes/router.py) over                        *)
(* service.load_question_bundle and service.build_explanation (SpecRest).  *)
(***************************************************************************)
\* load_question_bundle's correct label: the answer key option's label, else the
\* first option flagged is_correct; stripped, not normalized
BundleCorrectLabel(q) ==
    LET flagged == {i \in 1..Len(q.options) : q.options[i].is_correct}
        keyed == IF q.answer_key # 0 THEN Strip(OptionById(q, q.answer_key).label) ELSE ""
    IN  IF keyed # "" THEN keyed
        ELSE IF flagged = {} THEN ""
        ELSE Strip(q.options[CHOOSE i \in flagged : \A j \in flagged : i <= j].label)

\* service.load_question_bundle: the bundle, or the ValueError it raises
load_question_bundle(question_id) ==
    IF ~HasQuestion(question_id)
    THEN [raised |-> TRUE, text |-> "Question not found for question_id=" \o ToString(question_id)]
    ELSE LET q == QuestionStore[question_id]
         IN  IF Len(q.options) = 0
             THEN [raised |-> TRUE, text |-> "This question has no options in DB."]
             ELSE IF BundleCorrectLabel(q) = ""
             THEN [raised |-> TRUE,
                   text |-> "Correct answer label not found. Ensure AnswerKey is stored and linked to options."]
             ELSE [raised |-> FALSE, text |-> "",
                   lecture_text |-> Strip(q.lecture),
                   stem |-> Strip(q.stem),
                   options |-> [i \in 1..Len(q.options) |->
                                   [label |-> q.options[i].label, text |-> q.options[i].text]],
                   correct_label |-> BundleCorrectLabel(q)]

RestRevisions == {"live", "backup"}
\* question_id of the request: 0 (or None) selects the stateless mode
RestQuestionIds == {0, 42, 7, 8, 99}
\* student_answer_label (1 to 5 characters by the schema)
RestLabels == {"A", "a", "B", " b"}
StatelessPayloads ==
    {NoStateless,
     [question_stem |-> "Which gas do plants absorb?",
      options |-> << [label |-> "A", text |-> "Carbon dioxide"],
                     [label |-> "B", text |-> "Oxygen"] >>,
      correct_label |-> "A",
      lecture_text |-> "Plants absorb carbon dioxide."],
     [question_stem |-> "Which gas do plants absorb?",
      options |-> << [label |-> "A", text |-> "Carbon dioxide"],
                     [label |-> "B", text |-> "Oxygen"] >>,
      correct_label |-> "A",
      lecture_text |-> ""]}

InvalidStateless(rev) ==
    IF rev = "live" THEN "Invalid stateless payload"
    ELSE "Either a valid question_id OR full payload (question_stem, options, correct_label, lecture_text) must be provided."

\* the database failing under load_question_bundle
DbFailure == [category |-> "OperationalError", message |-> "could not connect to server db01:5432"]

RestRest == << explanations, call, ncalls, router, gen, norm, chat, aux >>

\* the stateless branch's completeness test on the payload
StatelessComplete(payload) ==
    /\ payload.question_stem # "" /\ payload.options # << >>
    /\ payload.correct_label # "" /\ payload.lecture_text # ""

\* the handler's try block once the bundle is loaded: the response, a ValueError
\* or another exception
RestTry(rev, db_mode, bundle, student_answer_label, payload, fault) ==
    IF db_mode /\ fault
    THEN [kind |-> "Exception", category |-> DbFailure.category, message |-> DbFailure.message]
    ELSE IF db_mode /\ bundle.raised
    THEN [kind |-> "ValueError", category |-> "ValueError", message |-> bundle.text]
    ELSE IF ~db_mode /\ ~StatelessComplete(payload)
    THEN [kind |-> "ValueError", category |-> "ValueError", message |-> InvalidStateless(rev)]
    ELSE [kind |-> "ok",
          resp |-> build_explanation(IF db_mode THEN bundle.lecture_text ELSE payload.lecture_text,
                                     IF db_mode THEN bundle.stem ELSE payload.question_stem,
                                     IF db_mode THEN bundle.options ELSE payload.options,
                                     IF db_mode THEN bundle.correct_label ELSE payload.correct_label,
                                     student_answer_label)]

\* what the handler's try block does for a request
RestOutcome(rev, question_id, student_answer_label, payload, fault) ==
    RestTry(rev, question_id # 0, load_question_bundle(question_id),
            student_answer_label, payload, fault)

\* the exception mapping of each revision applied to the outcome o
RestResponse(rev, request, o) ==
    IF o.kind = "ok"
    THEN [request EXCEPT !.status = 200, !.resp = o.resp]
    ELSE IF rev = "live"
    THEN [request EXCEPT !.status = 500, !.detail = o.message]
    ELSE IF o.kind = "ValueError"
    THEN [request EXCEPT !.status = 400, !.detail = o.message]
    ELSE [request EXCEPT !.status = 500,
              !.detail = "Unexpected error while generating XAI explanation: " \o o.category]

\* explain_answer: the whole handler, with the exception mapping of each revision.
\* The request's include_evidence flag is not among the arguments the handler
\* hands to build_explanation, which then runs with its default (False).
explain_answer(rev, question_id, student_answer_label, payload, include_evidence, fault) ==
    /\ rest.pc = "idle"
    /\ rest' = RestResponse(rev,
                            [RestIdle EXCEPT !.pc = "done", !.rev = rev,
                                             !.question_id = question_id,
                                             !.student_answer_label = student_answer_label,
                                             !.payload = payload,
                                             !.include_evidence = include_evidence,
                                             !.fault = fault],
                            RestOutcome(rev, question_id, student_answer_label, payload, fault))
    /\ UNCHANGED RestRest

\* the response has been sent
RestReturn ==
    /\ rest.pc = "done"
    /\ rest' = RestIdle
    /\ UNCHANGED RestRest

RestNext ==
    \/ \E rev \in RestRevisions, qid \in RestQuestionIds, l \in RestLabels,
          p \in StatelessPayloads, e \in BOOLEAN, f \in BOOLEAN :
              explain_answer(rev, qid, l, p, e, f)
    \/ RestReturn

SpecRest == Init /\ [][RestNext]_vars


\* C14: a successful /xai/explain response reports is_correct = TRUE exactly
\* when the normalized student label equals the correct label, whatever the
\* casing of the raw label, and reports the ground-truth correct label.
C14_VerdictIgnoresCasing ==
    (rest.pc = "done" /\ rest.status = 200) =>
        /\ rest.resp.is_correct =
               (_normalize_choice_label(rest.student_answer_label) = rest.resp.correct_label)
        /\ rest.resp.correct_label =
               (IF rest.question_id # 0
                THEN BundleCorrectLabel(QuestionStore[rest.question_id])
                ELSE rest.payload.correct_label)


\* C20: POST /xai/explain answers an incomplete stateless payload, a question
\* that is not found and a data-integrity failure with a 400-class status, and
\* any other failure with a 500-class status whose detail is built from the
\* error's category name and does not carry the error's message.
C20_ErrorMapping ==
    rest.pc = "done" =>
        LET o == RestOutcome(rest.rev, rest.question_id, rest.student_answer_label,
                             rest.payload, rest.fault)
        IN  /\ o.kind = "ValueError" => rest.status \in 400..499
            /\ o.kind = "Exception" =>
                   /\ rest.status \in 500..599
                   /\ Contains(rest.detail, o.category)
                   /\ ~Contains(rest.detail, o.message)


\* ---------------------------------------------------------------------------
\* Exceptions inside explain_mcq_answer_tool: the question-store lookup, the
\* cache query or the generation raises.  (A failed cache write is the
\* committed = FALSE case of LivePersist and BackupPersist.)
\* ---------------------------------------------------------------------------

\* the store operations of the first half of the call that may raise
FaultPoints == {"question", "cache"}

StoreFailure == "(psycopg2.OperationalError) server closed the connection unexpectedly"
GenerationFailure == "'NoneType' object has no attribute 'lower'"
UnboundIsCorrect == "local variable 'is_correct' referenced before assignment"

FaultRest == << explanations, router, gen, norm, rest, chat, aux >>

\* live tool: get_question_by_id or the cache query raises; the outer handler
\* returns the error text and the finally clause closes the session
LiveRaises(c, qid, raw, at) ==
    /\ call[c].pc \in {"idle", "done"}
    /\ ncalls < ResolveCalls
    /\ at = "cache" => /\ HasQuestion(qid)
                       /\ CorrectLabelOf(QuestionStore[qid]) # ""
                       /\ SelectedOptionId(QuestionStore[qid], _normalize_choice_label(raw)) # 0
    /\ ncalls' = ncalls + 1
    /\ call' = [call EXCEPT ![c] = Failed("live", qid, "Error retrieving data: " \o StoreFailure)]
    /\ UNCHANGED FaultRest

\* live tool: build_explanation raises; same handler
LiveGenerateRaises(c) ==
    /\ call[c].pc = "generate"
    /\ call[c].rev = "live"
    /\ call' = [call EXCEPT ![c] =
                    Finished(call[c], ErrorOut("Error retrieving data: " \o GenerationFailure))]
    /\ UNCHANGED << ncalls, explanations, router, gen, norm, rest, chat, aux >>

\* backup tool, lines 267-275: the handler answers by is_correct, which is
\* assigned at line 197 only.  When get_question_by_id raised, is_correct is
\* unbound and the handler itself raises UnboundLocalError to the caller (the
\* finally clause still closes the session); when the cache query raised, the
\* fallback sentence for the verdict is returned.
BackupRaises(c, qid, raw, at) ==
    /\ call[c].pc \in {"idle", "done"}
    /\ ncalls < ResolveCalls
    /\ at = "cache" => /\ HasQuestion(qid)
                       /\ BackupCorrectLabelOf(QuestionStore[qid]) # ""
                       /\ FirstOptionId(QuestionStore[qid], _normalize_choice_label(raw)) # 0
    /\ ncalls' = ncalls + 1
    /\ call' = [call EXCEPT ![c] =
                    IF at = "question"
                    THEN [Idle EXCEPT !.pc = "done", !.rev = "backup", !.qid = qid,
                                      !.out = RaisedOut(UnboundIsCorrect), !.session = "closed"]
                    ELSE [Idle EXCEPT !.pc = "done", !.rev = "backup", !.qid = qid,
                                      !.label = _normalize_choice_label(raw),
                                      !.correct = BackupCorrectLabelOf(QuestionStore[qid]),
                                      !.out = BackupOutput(
                                          IF _normalize_choice_label(raw)
                                                 = BackupCorrectLabelOf(QuestionStore[qid])
                                          THEN CorrectFallback ELSE IncorrectFallback),
                                      !.session = "closed"]]
    /\ UNCHANGED FaultRest

\* backup tool: the backend raises inside _generate_ai_explanation, which
\* absorbs the exception and returns its fallback text; the call goes on to save
BackupGenerateFails(c) ==
    /\ call[c].pc = "generate"
    /\ call[c].rev = "backup"
    /\ call' = [call EXCEPT ![c] =
                    [call[c] EXCEPT !.pc = "persist",
                         !.content = _generate_ai_explanation(
                                         QuestionStore[call[c].qid].lecture,
                                         QuestionStore[call[c].qid].stem,
                                         LastTextOf(QuestionStore[call[c].qid], call[c].label),
                                         LastTextOf(QuestionStore[call[c].qid], call[c].correct),
                                         call[c].label = call[c].correct,
                                         BackupQuestionType(QuestionStore[call[c].qid].stem),
                                         Raised("ReadTimeout"))]]
    /\ UNCHANGED << ncalls, explanations, router, gen, norm, rest, chat, aux >>

FaultNext ==
    \/ \E qid \in ResolveQuestionIds, raw \in ResolveLabels : ResolveLive(qid, raw)
    \/ LiveGenerate("c1")
    \/ \E committed \in BOOLEAN : LivePersist("c1", committed)
    \/ \E qid \in ResolveQuestionIds, raw \in ResolveLabels : ResolveBackup(qid, raw)
    \/ \E response \in Responses : BackupGenerate("c1", response)
    \/ \E committed \in BOOLEAN : BackupPersist("c1", committed)
    \/ \E qid \in ResolveQuestionIds, raw \in ResolveLabels, at \in FaultPoints :
          LiveRaises("c1", qid, raw, at)
    \/ LiveGenerateRaises("c1")
    \/ \E qid \in ResolveQuestionIds, raw \in ResolveLabels, at \in FaultPoints :
          BackupRaises("c1", qid, raw, at)
    \/ BackupGenerateFails("c1")

SpecFault == Init /\ [][FaultNext]_vars

\* C15: explain never raises to its caller: whatever fails inside the call
\* (question-store lookup, generation, cache write), a finished call has
\* returned a result string, and its store session is closed.
C15_NeverRaises ==
    \A c \in Callers :
        call[c].pc = "done" => /\ call[c].out.kind \in {"ok", "error"}
                               /\ call[c].session = "closed"


\* ---------------------------------------------------------------------------
\* The label normalizer on its own: _normalize_choice_label applied to one
\* argument at a time.
\* ---------------------------------------------------------------------------

\* str(x or ""): None and the empty string both give ""
StrOrEmpty(x) == IF x.type = "NoneType" THEN "" ELSE x.value

NormLetters == {"A", "B", "C", "D", "a", "b", "c", "d"}
NormPrefixes == {"", ".", ": ", "option ", "Option ", " "}
NormSuffixes == {"", ".", ":", " "}
\* labels that hold no standalone letter A-D
NormOthers == {"", " ", ".", ":", "..", "E", "e.", "1", "10", "Option", "option", "?", "-",
               "AB", "bad", "None", "True"}
NormInputs ==
    {PyNone}
        \cup {PyStr(p \o l \o s) : p \in NormPrefixes, l \in NormLetters, s \in NormSuffixes}
        \cup {PyStr(o) : o \in NormOthers}

NormRest == << explanations, call, ncalls, router, gen, rest, chat, aux >>

\* one call of the normalizer
NormCall(x) ==
    /\ norm.pc = "idle"
    /\ norm' = [pc |-> "done", raw |-> x, result |-> _normalize_choice_label(StrOrEmpty(x))]
    /\ UNCHANGED NormRest

NormReturn ==
    /\ norm.pc = "done"
    /\ norm' = NormIdle
    /\ UNCHANGED NormRest

NormNext ==
    \/ \E x \in NormInputs : NormCall(x)
    \/ NormReturn

SpecNorm == Init /\ [][NormNext]_vars


\* the spellings of the letter l that the claim lists
ListedSpellings(l) ==
    {l, LowerChar(l), "." \o l, ": " \o l, "option " \o l, "Option " \o LowerChar(l)}

\* C16: the normalizer returns "B" for "B", "b", ".B", ": B", "option B" and
\* "Option b", likewise for the letters A, C and D, and returns the empty
\* string for an empty string and for None.
C16_ListedSpellings ==
    norm.pc = "done" =>
        /\ \A l \in {"A", "B", "C", "D"} :
               (norm.raw.type = "str" /\ norm.raw.value \in ListedSpellings(l)) => norm.result = l
        /\ (norm.raw = PyNone \/ norm.raw = PyStr("")) => norm.result = ""

C16_Witness ==
    /\ norm.pc = "done"
    /\ norm.raw = PyStr("Option b")
    /\ norm.result = "B"

\* C17: for every input the normalizer's result is one of the letters A, B, C,
\* D or the empty string.
C17_ResultIsLetterOrEmpty ==
    norm.pc = "done" => norm.result \in {"A", "B", "C", "D", ""}


\* C18: within one explain call the steps come in order.  A call enters its
\* generation step only from its start and only when its cache lookup found no
\* entry; it enters its persist step only from the generation step, whose text
\* it then holds; the cache is written only in the persist step; and a call
\* whose lookup hit goes straight to its result, generating and writing nothing.
C18_StepsInOrder ==
    [][\A c \in Callers :
          (call'[c] # call[c]) =>
              /\ call'[c].pc = "generate" =>
                     /\ call[c].pc \in {"idle", "done"}
                     /\ ~call'[c].hit
                     /\ LookupMatches(call'[c].rev, call'[c].qid, call'[c].opt) = {}
              /\ call'[c].pc = "persist" =>
                     /\ call[c].pc = "generate"
                     /\ call'[c].content # ""
              /\ explanations' # explanations =>
                     /\ call[c].pc = "persist"
                     /\ explanations' = Append(explanations,
                                               Row(Len(explanations) + 1, call[c].qid,
                                                   call[c].opt, call[c].content,
                                                   SourceTag(call[c].rev)))
              /\ call'[c].hit =>
                     /\ call[c].pc \in {"idle", "done"}
                     /\ call'[c].pc = "done"
                     /\ call'[c].saved = "none"
                     /\ explanations' = explanations]_vars

\* one caller generated and saved, and another caller's lookup then hit the
\* stored text and returned it without generating
C18_Witness ==
    \E c, d \in Callers :
        /\ c # d
        /\ call[c].pc = "done" /\ call[c].saved = "ok" /\ ~call[c].hit
        /\ call[d].pc = "done" /\ call[d].hit /\ call[d].saved = "none"
        /\ call[d].content = call[c].content


\* ---------------------------------------------------------------------------
\* The chat layer: ChatManager.send_message (chat_manager.py 25-120)
\* ---------------------------------------------------------------------------
Numerals == "0123456789"

\* the first position at or after i whose character is not in chars
RECURSIVE SkipChars(_, _, _)
SkipChars(s, i, chars) ==
    IF i <= Len(s) /\ InChars(Char(s, i), chars) THEN SkipChars(s, i + 1, chars) ELSE i

\* the last position of the run of digits that starts at i (i - 1: no digit at i)
RECURSIVE DigitsEnd(_, _)
DigitsEnd(s, i) ==
    IF i <= Len(s) /\ InChars(Char(s, i), Numerals) THEN DigitsEnd(s, i + 1) ELSE i - 1

\* int(d) for a string of digits
RECURSIVE ParseInt(_)
ParseInt(d) ==
    IF d = "" THEN 0
    ELSE 10 * ParseInt(SubSeq(d, 1, Len(d) - 1)) + (IndexIn(Char(d, Len(d)), Numerals) - 1)

QidPhrase == "question id is"

\* where the digits of re.search(r"question ID is[:\s]*(\d+)", s, IGNORECASE)
\* would start for a match of the phrase at i
QidDigitsAt(s, i) == SkipChars(s, i + Len(QidPhrase), ": \n\t")

\* the pattern text k, matched at i whatever the casing (IGNORECASE)
MatchLowerAt(s, k, i) == i >= 1 /\ i + Len(k) - 1 <= Len(s) /\ Lower(SubSeq(s, i, i + Len(k) - 1)) = k

QidStarts(s) ==
    {i \in 1..Len(s) : /\ MatchLowerAt(s, QidPhrase, i)
                       /\ DigitsEnd(s, QidDigitsAt(s, i)) >= QidDigitsAt(s, i)}

FirstOf(S) == CHOOSE i \in S : \A j \in S : i <= j

\* int(qid_match.group(1))
QidOf(s) ==
    ParseInt(SubSeq(s, QidDigitsAt(s, FirstOf(QidStarts(s))),
                    DigitsEnd(s, QidDigitsAt(s, FirstOf(QidStarts(s))))))

LabelKeywords == {"option", "answer", "choice", "selected", "student", "value"}

\* where the letter of (?:option|...|value)[\s:\"'-]*([A-D])\b would stand for a
\* match of keyword k at i
LabelCharAt(s, i, k) == SkipChars(s, i + Len(k), " \n\t:\"'-")

LabelAt(s, i, k) ==
    /\ MatchLowerAt(s, k, i)
    /\ LabelCharAt(s, i, k) <= Len(s)
    /\ InChars(Char(s, LabelCharAt(s, i, k)), "ABCDabcd")
    /\ (LabelCharAt(s, i, k) = Len(s) \/ ~IsWordChar(Char(s, LabelCharAt(s, i, k) + 1)))

LabelStarts(s) == {i \in 1..Len(s) : \E k \in LabelKeywords : LabelAt(s, i, k)}

\* re.search(r"\b([A-D])\b", user_msg): upper-case letters only
FallbackStarts(s) == {i \in 1..Len(s) : StandaloneAt(s, i) /\ InChars(Char(s, i), "ABCD")}

\* the label send_message extracts: the keyword match, else a standalone letter,
\* else "A"
ChatLabelOf(s) ==
    IF LabelStarts(s) # {}
    THEN UpperChar(Char(s, LabelCharAt(s, FirstOf(LabelStarts(s)),
                                       CHOOSE k \in LabelKeywords :
                                           LabelAt(s, FirstOf(LabelStarts(s)), k))))
    ELSE IF FallbackStarts(s) # {} THEN Char(s, FirstOf(FallbackStarts(s)))
    ELSE "A"

\* is_tool_prompt or is_manual_check
Intercepted(s) == Contains(s, "explain_mcq_answer_tool") \/ Contains(Lower(s), QidPhrase)

\* the parameters explain_mcq_answer_tool declares (agent_tools.py 70-76) and the
\* keyword arguments send_message passes (chat_manager.py 74-78)
ToolParameters ==
    {"question_id", "student_answer_label", "lecture_text", "question_stem", "options"}
ChatKeywords == {"question_id", "student_answer_label", "use_offline"}

\* what a completed call of the live tool returns and leaves in the cache
ExplainResults(qid, label) ==
    IF ~HasQuestion(qid)
    THEN {[out |-> ErrorOut("Error: Question ID not found in database."), rows |-> explanations]}
    ELSE IF CorrectLabelOf(QuestionStore[qid]) = ""
    THEN {[out |-> ErrorOut("Error: Could not determine correct answer."), rows |-> explanations]}
    ELSE IF SelectedOptionId(QuestionStore[qid], label) = 0
    THEN {[out |-> ErrorOut("Error: Option '" \o label \o "' does not exist for this question."),
           rows |-> explanations]}
    ELSE IF LookupMatches("live", qid, SelectedOptionId(QuestionStore[qid], label)) # {}
    THEN {[out |-> ToolOutput(label = CorrectLabelOf(QuestionStore[qid]), "DATABASE (VERIFIED)",
                              explanations[i].content),
           rows |-> explanations] :
             i \in LookupMatches("live", qid, SelectedOptionId(QuestionStore[qid], label))}
    ELSE {[out |-> ToolOutput(label = CorrectLabelOf(QuestionStore[qid]), "AI_GENERATED (FRESH)", t),
           rows |-> IF committed
                    THEN Append(explanations,
                                Row(Len(explanations) + 1, qid,
                                    SelectedOptionId(QuestionStore[qid], label), t,
                                    "ai_agent_generated"))
                    ELSE explanations] :
             t \in {build_explanation(
                        QuestionStore[qid].lecture, QuestionStore[qid].stem,
                        [i \in 1..Len(QuestionStore[qid].options) |->
                            [label |-> _normalize_choice_label(QuestionStore[qid].options[i].label),
                             text |-> QuestionStore[qid].options[i].text]],
                        CorrectLabelOf(QuestionStore[qid]), label).reasoning},
             committed \in BOOLEAN}

ChatMessages ==
    {"Please call explain_mcq_answer_tool. The question ID is 42. The student selected option B.",
     "The question ID is 42 and the student selected: a",
     "question id is: 7, answer \"C\"",
     "Question ID is 99. Choice D",
     "The question ID is 42. I think it is B",
     "The question ID is 42.",
     "Why is option B wrong?",
     "Call explain_mcq_answer_tool for my answer B",
     "question id is 42 option b",
     "The question ID is 8. Student value: 'D'",
     "What is photosynthesis?",
     "The question ID is 42. My answer - c",
     "The Question ID is 9. selected A",
     "hello"}

\* what the agent runner does with the prompt: a final text, no text, or an error
AgentOutcomes ==
    {Returned("Incorrect. The correct answer is A."), Returned(""), Raised("Connection refused")}

ChatRest == << call, ncalls, router, gen, norm, rest, aux >>

\* send_message up to the agent run: the interception of a "check answer" message
send_message(user_msg, use_offline) ==
    /\ chat.pc = "idle"
    /\ IF Intercepted(user_msg) /\ QidStarts(user_msg) # {}
       THEN IF ChatKeywords \subseteq ToolParameters
            THEN \E r \in ExplainResults(QidOf(user_msg), _normalize_choice_label(ChatLabelOf(user_msg))) :
                    /\ chat' = [ChatIdle EXCEPT !.pc = "done", !.user_msg = user_msg,
                                                !.use_offline = use_offline,
                                                !.intercepted = TRUE,
                                                !.qid = QidOf(user_msg),
                                                !.label = ChatLabelOf(user_msg),
                                                !.tool = "returned", !.origin = "tool",
                                                !.out = r.out]
                    /\ explanations' = r.rows
            \* TypeError: unexpected keyword argument; swallowed by the except clause
            ELSE /\ chat' = [ChatIdle EXCEPT !.pc = "agent", !.user_msg = user_msg,
                                             !.use_offline = use_offline,
                                             !.intercepted = TRUE,
                                             !.qid = QidOf(user_msg),
                                             !.label = ChatLabelOf(user_msg),
                                             !.tool = "TypeError"]
                 /\ UNCHANGED explanations
       ELSE /\ chat' = [ChatIdle EXCEPT !.pc = "agent", !.user_msg = user_msg,
                                        !.use_offline = use_offline,
                                        !.intercepted = Intercepted(user_msg)]
            /\ UNCHANGED explanations
    /\ UNCHANGED ChatRest

\* lines 103-120: the message goes to the online or offline agent
AgentReply(outcome) ==
    /\ chat.pc = "agent"
    /\ chat' = [chat EXCEPT !.pc = "done", !.origin = "agent",
                    !.text = IF outcome.raised
                             THEN "Error from "
                                      \o (IF chat.use_offline THEN "offline" ELSE "online")
                                      \o " agent: " \o outcome.text
                             ELSE IF outcome.text = "" THEN "[No response]"
                             ELSE outcome.text]
    /\ UNCHANGED << explanations, call, ncalls, router, gen, norm, rest, aux >>

ChatReturn ==
    /\ chat.pc = "done"
    /\ chat' = ChatIdle
    /\ UNCHANGED << explanations, call, ncalls, router, gen, norm, rest, aux >>

ChatNext ==
    \/ \E user_msg \in ChatMessages, use_offline \in BOOLEAN : send_message(user_msg, use_offline)
    \/ \E outcome \in AgentOutcomes : AgentReply(outcome)
    \/ ChatReturn

SpecChat == Init /\ [][ChatNext]_vars

\* C19: a chat message that states a question id and an option label is
\* answered with the orchestrator's result for that question id and label, for
\* the online and the offline preference alike: the chat layer's call of the
\* orchestrator succeeds and its result is what send_message returns.
C19_ChatReturnsToolResult ==
    (chat.pc = "done" /\ chat.intercepted /\ chat.qid # 0 /\ LabelStarts(chat.user_msg) # {}) =>
        /\ chat.tool = "returned"
        /\ chat.origin = "tool"
        /\ chat.out.kind \in {"ok", "error"}


\* C21: a stateless /xai/explain request (question_id absent or 0) that gives
\* question_stem, options and correct_label is accepted and answered with an
\* explanation whether or not it gives lecture_text.
C21_LectureTextOptional ==
    (/\ rest.pc = "done"
     /\ rest.question_id = 0
     /\ rest.payload.question_stem # ""
     /\ rest.payload.options # << >>
     /\ rest.payload.correct_label # "") =>
        /\ rest.status = 200
        /\ rest.resp.reasoning # ""


\* build_explanation, lines 294-305: the sentence appended when include_evidence
\* is set, with evidence found and with none found
EvidenceFound == "For example, your notes support this by stating: "
EvidenceMissing == "I could not find a strongly matching sentence in your notes for this stem."

\* C22: for an /xai/explain request the evidence sentence is part of the
\* reasoning exactly when the request's include_evidence flag is true; when the
\* flag is false key_concepts is empty and no evidence sentence is appended.
C22_EvidenceFollowsFlag ==
    (rest.pc = "done" /\ rest.status = 200) =>
        /\ rest.include_evidence <=>
               (\/ Contains(rest.resp.reasoning, EvidenceFound)
                \/ Contains(rest.resp.reasoning, EvidenceMissing))
        /\ ~rest.include_evidence => rest.resp.key_concepts = << >>


\* ---------------------------------------------------------------------------
\* Evidence retrieval: service.retrieve_evidence (service.py 152-179)
\* ---------------------------------------------------------------------------

\* re.split(r"(?<=[.!?])\s+", text): cut at each run of whitespace that follows
\* a full stop, an exclamation mark or a question mark
SplitCuts(s, start) ==
    {i \in start..Len(s) : IsSpace(Char(s, i)) /\ i > 1 /\ InChars(Char(s, i - 1), ".!?")}

RECURSIVE SplitFrom(_, _)
SplitFrom(s, start) ==
    IF SplitCuts(s, start) = {} THEN << SubSeq(s, start, Len(s)) >>
    ELSE << SubSeq(s, start, FirstOf(SplitCuts(s, start)) - 1) >>
             \o SplitFrom(s, SkipChars(s, FirstOf(SplitCuts(s, start)), " \n\t"))

MinSentenceLen == 20

\* the stripped pieces longer than 20 characters
EvidenceSentences(lecture_text) ==
    SelectSeq([i \in 1..Len(SplitFrom(lecture_text, 1)) |->
                  Strip(SplitFrom(lecture_text, 1)[i])],
              LAMBDA t : Len(t) > MinSentenceLen)

\* cosine similarities are modelled in hundredths; the threshold 0.1 is 10
SimilarityThreshold == 10

\* numpy argsort (default kind, not a stable sort): an ascending order of the
\* indices; where similarities are equal the order is the library's choice
Argsorts(scores) ==
    {p \in [1..Len(scores) -> 1..Len(scores)] :
        /\ \A i, j \in 1..Len(scores) : i # j => p[i] # p[j]
        /\ \A i, j \in 1..Len(scores) : i < j => scores[p[i]] <= scores[p[j]]}

\* a[-k:] for k >= 0: the last k elements, and the whole of a when k = 0 or k > len(a)
LastK(a, k) == IF k = 0 \/ k >= Len(a) THEN a ELSE SubSeq(a, Len(a) - k + 1, Len(a))

\* a[::-1]
Reversed(a) == [i \in 1..Len(a) |-> a[Len(a) + 1 - i]]

\* top_indices of lines 169-170, and the loop of lines 172-176
TopIndices(order, top_k) == Reversed(LastK(order, top_k))

EvidenceResults(sentences, scores, top_indices) ==
    [i \in 1..Len(SelectSeq(top_indices, LAMBDA idx : scores[idx] > SimilarityThreshold)) |->
        sentences[SelectSeq(top_indices, LAMBDA idx : scores[idx] > SimilarityThreshold)[i]]]

MaxTopK == 3

EvidLectures ==
    {"",
     "Short one. Yes.",
     "Short one. Plants absorb carbon dioxide from air.",
     "Plants absorb carbon dioxide from air. Chlorophyll captures the light energy!",
     "Plants absorb carbon dioxide from air. Chlorophyll captures the light energy!\nDo roots take up water and minerals?  Yes."}

\* similarities of a sentence to the query, in hundredths
EvidScores == {0, 10, 11, 50}

\* retrieve_evidence: the whole call.  scores is what the TF-IDF vectorizer and
\* the cosine product give for the sentences, order what argsort gives, raised
\* whether the vectorizer raised (an empty vocabulary does).
retrieve_evidence(lecture_text, top_k, scores, order, raised) ==
    /\ evid.pc = "idle"
    /\ evid' = [pc |-> "done", lecture_text |-> lecture_text, top_k |-> top_k,
                sentences |-> EvidenceSentences(lecture_text),
                scores |-> scores, order |-> order, raised |-> raised,
                results |-> IF lecture_text = "" \/ Len(scores) = 0 \/ raised THEN << >>
                            ELSE EvidenceResults(EvidenceSentences(lecture_text), scores,
                                                 TopIndices(order, top_k))]
    /\ UNCHANGED << core, agents, demo, mcq, cleaner, store >>

EvidReturn ==
    /\ evid.pc = "done"
    /\ evid' = EvidIdle
    /\ UNCHANGED << core, agents, demo, mcq, cleaner, store >>

EvidNext ==
    \/ \E lecture_text \in EvidLectures, top_k \in 0..MaxTopK :
          \E scores \in [1..Len(EvidenceSentences(lecture_text)) -> EvidScores] :
             \E order \in Argsorts(scores), raised \in BOOLEAN :
                retrieve_evidence(lecture_text, top_k, scores, order, raised)
    \/ EvidReturn

SpecEvid == Init /\ [][EvidNext]_vars


\* the place in the lecture and the similarity of a returned sentence
PlaceOf(t) == CHOOSE k \in 1..Len(evid.sentences) : evid.sentences[k] = t
ScoreOf(t) == evid.scores[PlaceOf(t)]
Returned23 == {evid.results[i] : i \in 1..Len(evid.results)}

\* C23: for every lecture text and top_k >= 0, retrieve returns at most top_k
\* sentences of the lecture, each with similarity strictly greater than 0.1, in
\* descending order of similarity, and never returns a sentence while omitting
\* a more similar one.
C23_TopKAboveThreshold ==
    evid.pc = "done" =>
        /\ Len(evid.results) <= evid.top_k
        /\ \A i \in 1..Len(evid.results) :
               /\ \E k \in 1..Len(evid.sentences) : evid.sentences[k] = evid.results[i]
               /\ ScoreOf(evid.results[i]) > SimilarityThreshold
        /\ \A i, j \in 1..Len(evid.results) :
               i < j => ScoreOf(evid.results[i]) >= ScoreOf(evid.results[j])
        /\ \A k \in 1..Len(evid.sentences) :
               evid.sentences[k] \notin Returned23 =>
                   \A t \in Returned23 : evid.scores[k] <= ScoreOf(t)

\* C24: sentences with equal similarity are returned in their original order
\* in the lecture text.
C24_TiesInOriginalOrder ==
    evid.pc = "done" =>
        \A i, j \in 1..Len(evid.results) :
            (i < j /\ ScoreOf(evid.results[i]) = ScoreOf(evid.results[j])) =>
                PlaceOf(evid.results[i]) < PlaceOf(evid.results[j])


\* ---------------------------------------------------------------------------
\* The configured backend pairs and their timeouts, in seconds
\* ---------------------------------------------------------------------------
DeepSeekClientTimeout == 10
OllamaClientTimeout == 45
HybridOnlineTimeout == 8
HybridOfflineTimeout == 40
OnlineAgentTimeout == 120
OfflineAgentTimeout == 120

\* failover: the fallback is tried when the primary fails (call_hybrid_llm,
\* HybridModel.run_async); the two agents are switched by the request's
\* use_offline flag instead
BackendPairs ==
    {[pair |-> "call_hybrid_llm", failover |-> TRUE,
      primary_timeout |-> DeepSeekClientTimeout, fallback_timeout |-> OllamaClientTimeout],
     [pair |-> "HybridModel.run_async", failover |-> TRUE,
      primary_timeout |-> HybridOnlineTimeout, fallback_timeout |-> HybridOfflineTimeout],
     [pair |-> "online_agent/offline_agent", failover |-> FALSE,
      primary_timeout |-> OnlineAgentTimeout, fallback_timeout |-> OfflineAgentTimeout]}

\* seconds a backend takes before it answers or fails
BackendDelays == {1, 3, 5, 7}

AgentsRest == << core, evid, demo, mcq, cleaner, store >>

\* a request enters one of the pairs
AgentsCall(p, use_offline) ==
    /\ agents.pc = "idle"
    /\ agents' = [AgentsIdle EXCEPT !.pc = IF ~p.failover /\ use_offline THEN "fallback"
                                          ELSE "primary",
                                    !.pair = p.pair, !.failover = p.failover,
                                    !.primary_timeout = p.primary_timeout,
                                    !.fallback_timeout = p.fallback_timeout]
    /\ UNCHANGED AgentsRest

\* the networked backend answers after d seconds, within its timeout
PrimaryAnswers(d) ==
    /\ agents.pc = "primary"
    /\ d < agents.primary_timeout
    /\ agents' = [agents EXCEPT !.pc = "done", !.waited_primary = d, !.result = "primary"]
    /\ UNCHANGED AgentsRest

\* the networked backend fails after d seconds
PrimaryFails(d) ==
    /\ agents.pc = "primary"
    /\ d < agents.primary_timeout
    /\ agents' = [agents EXCEPT !.pc = IF agents.failover THEN "fallback" ELSE "done",
                                !.waited_primary = d,
                                !.result = IF agents.failover THEN "" ELSE "error"]
    /\ UNCHANGED AgentsRest

\* the networked backend is cut off at its timeout
PrimaryTimesOut ==
    /\ agents.pc = "primary"
    /\ agents' = [agents EXCEPT !.pc = IF agents.failover THEN "fallback" ELSE "done",
                                !.waited_primary = agents.primary_timeout,
                                !.result = IF agents.failover THEN "" ELSE "error"]
    /\ UNCHANGED AgentsRest

FallbackAnswers(d) ==
    /\ agents.pc = "fallback"
    /\ d < agents.fallback_timeout
    /\ agents' = [agents EXCEPT !.pc = "done", !.waited_fallback = d, !.result = "fallback"]
    /\ UNCHANGED AgentsRest

FallbackFails(d) ==
    /\ agents.pc = "fallback"
    /\ d < agents.fallback_timeout
    /\ agents' = [agents EXCEPT !.pc = "done", !.waited_fallback = d, !.result = "error"]
    /\ UNCHANGED AgentsRest

FallbackTimesOut ==
    /\ agents.pc = "fallback"
    /\ agents' = [agents EXCEPT !.pc = "done", !.waited_fallback = agents.fallback_timeout,
                                !.result = "error"]
    /\ UNCHANGED AgentsRest

AgentsReturn ==
    /\ agents.pc = "done"
    /\ agents' = AgentsIdle
    /\ UNCHANGED AgentsRest

AgentsNext ==
    \/ \E p \in BackendPairs, use_offline \in BOOLEAN : AgentsCall(p, use_offline)
    \/ \E d \in BackendDelays : PrimaryAnswers(d)
    \/ \E d \in BackendDelays : PrimaryFails(d)
    \/ PrimaryTimesOut
    \/ \E d \in BackendDelays : FallbackAnswers(d)
    \/ \E d \in BackendDelays : FallbackFails(d)
    \/ FallbackTimesOut
    \/ AgentsReturn

SpecAgents == Init /\ [][AgentsNext]_vars

\* C25: for every configured pair of primary (networked) and fallback (local)
\* backend, the primary backend's timeout is strictly smaller than the fallback
\* backend's timeout.
C25_PrimaryTimeoutSmaller ==
    agents.pc # "idle" => agents.primary_timeout < agents.fallback_timeout


\* ---------------------------------------------------------------------------
\* The chatbot's demo tools (backup codes/tools.py) called by two chat sessions
\* ---------------------------------------------------------------------------
Sessions == {"s1", "s2"}

MinLectureLen == 50
MaxDemoQuestions == 50

DemoTexts ==
    {"", "Too short.",
     "  Photosynthesis converts light energy into chemical energy in plants.  ",
     "Newton's second law states that force equals mass times acceleration."}
DemoTitles == {"Biology", "", " Physics "}
DemoLevels == {"short", "normal", " Deep ", "loud"}
DemoCounts == {0, 1, 2, 51}
DemoDifficulties == {"easy", "HARD", "tricky"}

Success == [status |-> "success", error_message |-> ""]
DemoError(msg) == [status |-> "error", error_message |-> msg]

DemoRest == << core, evid, agents, mcq, cleaner, store >>

\* get_status(): the summary of _STATE any caller is given
StatusOf(st) ==
    [lecture_loaded |-> st.lecture_text # "",
     lecture_id |-> st.lecture_id,
     lecture_title |-> st.lecture_title,
     has_last_questions |-> st.last_questions # << >>,
     verbosity |-> st.verbosity]

get_status(s) ==
    /\ demo' = [demo EXCEPT !.actor = s, !.op = "get_status", !.result = Success]
    /\ UNCHANGED DemoRest

set_verbosity(s, level) ==
    /\ demo' = IF Lower(Strip(level)) \in {"short", "normal", "deep"}
               THEN [state |-> [demo.state EXCEPT !.verbosity = Lower(Strip(level))],
                     actor |-> s, op |-> "set_verbosity", result |-> Success]
               ELSE [demo EXCEPT !.actor = s, !.op = "set_verbosity",
                                 !.result = DemoError("level must be: short | normal | deep")]
    /\ UNCHANGED DemoRest

load_lecture_text(s, text, title) ==
    /\ demo' = IF Len(Strip(text)) < MinLectureLen
               THEN [demo EXCEPT !.actor = s, !.op = "load_lecture_text",
                         !.result = DemoError("Lecture text too short. Please paste more content (>= 50 characters).")]
               ELSE [state |-> [demo.state EXCEPT
                                   !.lecture_id = "lec_001",
                                   !.lecture_title = IF title # "" THEN Strip(title)
                                                     ELSE "Untitled Lecture",
                                   !.lecture_text = Strip(text),
                                   !.last_questions = << >>],
                     actor |-> s, op |-> "load_lecture_text", result |-> Success]
    /\ UNCHANGED DemoRest

\* difficulty = (difficulty or "medium").strip().lower(), "medium" unless known
DemoDifficulty(difficulty) ==
    IF Lower(Strip(difficulty)) \in {"easy", "medium", "hard"} THEN Lower(Strip(difficulty))
    ELSE "medium"

DemoQuestions(n, title, difficulty) ==
    [i \in 1..n |->
        [qid |-> "Q" \o ToString(i),
         question |-> "(Demo) Question " \o ToString(i) \o " from '" \o title \o "' ("
                          \o difficulty \o ")?",
         answer |-> "B"]]

generate_mcq(s, n, difficulty) ==
    /\ demo' = IF demo.state.lecture_text = ""
               THEN [demo EXCEPT !.actor = s, !.op = "generate_mcq",
                         !.result = DemoError("No lecture loaded yet. Please provide lecture text first.")]
               ELSE IF n <= 0 \/ n > MaxDemoQuestions
               THEN [demo EXCEPT !.actor = s, !.op = "generate_mcq",
                         !.result = DemoError("n must be between 1 and 50.")]
               ELSE [state |-> [demo.state EXCEPT !.last_questions =
                                   DemoQuestions(n, demo.state.lecture_title,
                                                 DemoDifficulty(difficulty))],
                     actor |-> s, op |-> "generate_mcq", result |-> Success]
    /\ UNCHANGED DemoRest

DemoNext ==
    \/ \E s \in Sessions : get_status(s)
    \/ \E s \in Sessions, level \in DemoLevels : set_verbosity(s, level)
    \/ \E s \in Sessions, text \in DemoTexts, title \in DemoTitles :
          load_lecture_text(s, text, title)
    \/ \E s \in Sessions, n \in DemoCounts, difficulty \in DemoDifficulties :
          generate_mcq(s, n, difficulty)

SpecDemo == Init /\ [][DemoNext]_vars

\* C26: no process-wide mutable variable carries per-request data: an
\* operation of one chat session (load a lecture, generate MCQs, set
\* verbosity) never changes what another session observes.
C26_SessionsIsolated ==
    [][\A t \in Sessions :
          demo'.actor # t => StatusOf(demo'.state) = StatusOf(demo.state)]_vars


\* ---------------------------------------------------------------------------
\* MCQ generation: mcq_generation/service.py generate_mcqs_with_llm
\* ---------------------------------------------------------------------------
BATCH_SIZE == 8
MAX_TRIES_PER_BATCH == 3
MAX_TOTAL_BATCHES == 10

\* the code fence of a markdown reply: three backquotes, which a TLA+ string
\* cannot hold, written as three tildes in every reply of this model
Fence == "~~~"

\* the lines of a stripped text after the first, without a closing fence line
FenceBody(text) ==
    LET nl == Find(text, "\n")
        lines == IF nl = 0 THEN "" ELSE SubSeq(text, nl + 1, Len(text))
        last_nl == RFind(lines, "\n")
        last == SubSeq(lines, last_nl + 1, Len(lines))
    IN  IF nl # 0 /\ StartsWith(Strip(last), Fence)
        THEN (IF last_nl = 0 THEN "" ELSE SubSeq(lines, 1, last_nl - 1))
        ELSE lines

JsonSpan(text) ==
    LET first == Find(text, "{")
        last == RFind(text, "}")
    IN  IF first # 0 /\ last # 0 /\ last > first THEN SubSeq(text, first, last) ELSE text

_extract_json_block(raw) ==
    JsonSpan(IF StartsWith(Strip(raw), Fence) THEN Strip(FenceBody(Strip(raw))) ELSE Strip(raw))

\* re.sub(r"[.:]$", "", str(x or "").strip().upper())
RECURSIVE Upper(_)
Upper(s) == IF Len(s) = 0 THEN "" ELSE UpperChar(Char(s, 1)) \o Upper(SubSeq(s, 2, Len(s)))

_norm_label(x) ==
    LET s == Upper(Strip(x))
    IN  IF EndsWith(s, ".") \/ EndsWith(s, ":") THEN SubSeq(s, 1, Len(s) - 1) ELSE s

\* re.sub(r"\s+", " ", s)
RECURSIVE CollapseSpaces(_)
CollapseSpaces(s) ==
    IF Len(s) = 0 THEN ""
    ELSE IF IsSpace(Char(s, 1))
         THEN " " \o CollapseSpaces(LStrip(s))
         ELSE Char(s, 1) \o CollapseSpaces(SubSeq(s, 2, Len(s)))

_stem_key(stem) == CollapseSpaces(Lower(Strip(stem)))

\* --- what the backend can reply -------------------------------------------
McqOption(label, text) == [label |-> label, text |-> text]
McqItem(stem, options, correct_label) ==
    [stem |-> stem, options |-> options, correct_label |-> correct_label]

ItemCell ==
    McqItem("What is a cell?",
            << McqOption("A", "An organ"), McqOption("B", "The unit of life"),
               McqOption("C", "A tissue"), McqOption("D", "A molecule") >>, "B")
ItemCellAgain ==
    McqItem("  what is  a CELL? ",
            << McqOption("a.", "A small room"), McqOption("b:", "A battery"),
               McqOption(" c ", "The basic unit of life"), McqOption("D", "A prison") >>, "c")
ItemLight ==
    McqItem("Why do plants need light?",
            << McqOption("A", "For warmth"), McqOption("B", "For colour"),
               McqOption("C", "For water"), McqOption("D", "For photosynthesis") >>, "D.")
ItemTwoAs ==
    McqItem("Which gas do plants absorb?",
            << McqOption("A", "Carbon dioxide"), McqOption("A", "Oxygen"),
               McqOption("B", "Helium"), McqOption("C", "Neon") >>, "A")
ItemBlankStem == [ItemCell EXCEPT !.stem = "  "]
ItemThreeOptions == [ItemLight EXCEPT !.options = SubSeq(ItemLight.options, 1, 3)]
ItemLabelE == [ItemLight EXCEPT !.options[4] = McqOption("E", "For photosynthesis")]
ItemBlankText == [ItemLight EXCEPT !.options[2] = McqOption("B", " ")]
ItemNoCorrect == [ItemLight EXCEPT !.correct_label = " "]
ItemCorrectE == [ItemLight EXCEPT !.correct_label = "E"]

McqPayloads ==
    { << ItemCell >>, << ItemCellAgain, ItemLight >>, << ItemTwoAs >>, << ItemCorrectE >>,
      << ItemBlankStem, ItemThreeOptions, ItemLabelE, ItemBlankText, ItemNoCorrect >>,
      << >> }

\* json.dumps of one payload, as the backend would send it
DumpOption(o) == "{\"label\": \"" \o o.label \o "\", \"text\": \"" \o o.text \o "\"}"
DumpItem(q) ==
    "{\"stem\": \"" \o q.stem \o "\", \"options\": ["
        \o Join([i \in 1..Len(q.options) |-> DumpOption(q.options[i])], ", ")
        \o "], \"correct_label\": \"" \o q.correct_label \o "\"}"
Dumps(payload) ==
    "{\"questions\": [" \o Join([i \in 1..Len(payload) |-> DumpItem(payload[i])], ", ") \o "]}"

BackendReplies ==
    { Dumps(<< ItemCell >>),
      "Here are your questions:\n" \o Dumps(<< ItemCellAgain, ItemLight >>) \o "\nGood luck!",
      Fence \o "json\n" \o Dumps(<< ItemTwoAs >>) \o "\n" \o Fence,
      Dumps(<< ItemCorrectE >>),
      Dumps(<< ItemBlankStem, ItemThreeOptions, ItemLabelE, ItemBlankText, ItemNoCorrect >>),
      Dumps(<< >>),
      "{\"note\": \"no questions\"}",
      "{\"questions\": [{\"stem\": \"What is",
      "Sorry, I cannot do that. {see above}",
      "",
      "[]" }

\* json.loads on the texts above: an object with a "questions" list, an object
\* without one, another JSON value, or JSONDecodeError
json_loads(text) ==
    IF \E p \in McqPayloads : Dumps(p) = text
    THEN [kind |-> "dict", has_list |-> TRUE,
          questions |-> CHOOSE p \in McqPayloads : Dumps(p) = text]
    ELSE IF text = "{\"note\": \"no questions\"}"
    THEN [kind |-> "dict", has_list |-> FALSE, questions |-> << >>]
    ELSE IF text = "[]"
    THEN [kind |-> "list", has_list |-> FALSE, questions |-> << >>]
    ELSE [kind |-> "JSONDecodeError", has_list |-> FALSE, questions |-> << >>]

\* --- _call_once ------------------------------------------------------------
\* the item passes the checks made before random.shuffle
ReachesShuffle(item) ==
    /\ Strip(item.stem) # ""
    /\ Len(item.options) = 4
    /\ Strip(item.correct_label) # ""
    /\ \A i \in 1..4 : /\ _norm_label(item.options[i].label) \in {"A", "B", "C", "D"}
                       /\ Strip(item.options[i].text) # ""

\* every order random.shuffle can leave four options in
Shuffles == Permutations(1..4)

\* a relabelling that keeps the backend's label instead of following the shuffle
CorrectLabelKept(shuffled, correct_label_in_n) == correct_label_in_n

\* the new label of the option marked correct: the last match of the loop
CorrectLabelNew(shuffled, correct_label_in_n) ==
    LET hits == {i \in 1..4 : shuffled[i].label = correct_label_in_n}
    IN  IF hits = {} THEN ""
        ELSE Char("ABCD", CHOOSE i \in hits : \A j \in hits : i >= j)

\* the GeneratedQuestion built from a checked item, "" as correct_label when skipped
Reshuffle(item, perm) ==
    LET shuffled == [i \in 1..4 |->
                        [label |-> _norm_label(item.options[perm[i]].label),
                         text |-> item.options[perm[i]].text]]
    IN  [stem |-> Strip(item.stem),
         options |-> [i \in 1..4 |-> [label |-> Char("ABCD", i), text |-> shuffled[i].text]],
         correct_label |-> CorrectLabelNew(shuffled, _norm_label(item.correct_label))]

\* the positions of a payload whose items are shuffled
ShuffledAt(items) == {i \in 1..Len(items) : ReachesShuffle(items[i])}

RECURSIVE BatchOf(_, _, _)
BatchOf(items, sh, i) ==
    IF i > Len(items) THEN << >>
    ELSE IF i \in ShuffledAt(items) /\ Reshuffle(items[i], sh[i]).correct_label # ""
         THEN << Reshuffle(items[i], sh[i]) >> \o BatchOf(items, sh, i + 1)
         ELSE BatchOf(items, sh, i + 1)

\* call_deepseek_chat's reply with what _extract_json_block and json.loads make
\* of it, and every batch _call_once can build from it, one per way of shuffling
ParsedReply(raw, parsed) ==
    [raw |-> raw, parsed |-> parsed,
     batches |-> {BatchOf(parsed.questions, sh, 1) :
                     sh \in [ShuffledAt(parsed.questions) -> Shuffles]}]
BackendOutcomes ==
    { ParsedReply(raw, json_loads(_extract_json_block(raw))) : raw \in BackendReplies }

\* _stem_key of every stem a batch can hold, computed once
McqStems == UNION { {Strip(p[i].stem) : i \in 1..Len(p)} : p \in McqPayloads }
StemKeys == [stem \in McqStems |-> _stem_key(stem)]

\* --- batch + retry controller ---------------------------------------------
\* for q in batch: skip seen stems, collect until nothing remains
RECURSIVE Collect(_, _, _)
Collect(batch, i, acc) ==
    IF i > Len(batch) \/ acc.remaining <= 0 THEN acc
    ELSE IF StemKeys[batch[i].stem] \in acc.seen THEN Collect(batch, i + 1, acc)
         ELSE Collect(batch, i + 1,
                      [collected |-> Append(acc.collected, batch[i]),
                       seen |-> acc.seen \cup {StemKeys[batch[i].stem]},
                       remaining |-> acc.remaining - 1])

McqReturned(value) == [kind |-> "returned", exc |-> "", message |-> "", value |-> value]
McqRaised(exc, message) == [kind |-> "raised", exc |-> exc, message |-> message, value |-> << >>]

Min(a, b) == IF a <= b THEN a ELSE b

McqRest == << core, evid, agents, demo, cleaner, store >>

McqCounts == {0, 1, 2}
McqDifficulties == {"", " Easy ", "extreme"}

generate_mcqs_with_llm(num_questions, difficulty) ==
    /\ mcq.pc = "idle"
    /\ mcq' = IF num_questions <= 0
              THEN [McqIdle EXCEPT !.pc = "done", !.num_questions = num_questions,
                      !.outcome = McqRaised("ValueError",
                                            "num_questions must be a positive integer.")]
              ELSE IF Lower(Strip(difficulty)) \notin {"", "easy", "medium", "hard"}
              THEN [McqIdle EXCEPT !.pc = "done", !.num_questions = num_questions,
                      !.outcome = McqRaised("ValueError",
                          "difficulty must be one of: easy, medium, hard (or omitted).")]
              ELSE [McqIdle EXCEPT !.pc = "loop", !.num_questions = num_questions,
                      !.diff_norm = Lower(Strip(difficulty)),
                      !.remaining = num_questions,
                      !.k = Min(BATCH_SIZE, num_questions)]
    /\ UNCHANGED McqRest

\* the message of the ValueError _call_once raises for a reply, "" when it does not
CallOnceError(parsed) ==
    IF parsed.kind = "JSONDecodeError" THEN "DeepSeek returned invalid JSON for MCQ generation."
    ELSE IF parsed.kind = "dict" /\ ~parsed.has_list
    THEN "DeepSeek response missing a valid 'questions' list."
    ELSE ""

\* _call_once raises ValueError: try again, or give the batch up after the third
CallFails(reply) ==
    /\ mcq.pc = "loop"
    /\ CallOnceError(reply.parsed) # ""
    /\ mcq' = IF mcq.tries + 1 < MAX_TRIES_PER_BATCH
              THEN [mcq EXCEPT !.tries = mcq.tries + 1,
                               !.last_err = CallOnceError(reply.parsed)]
              ELSE [mcq EXCEPT !.pc = "done", !.tries = mcq.tries + 1,
                      !.last_err = CallOnceError(reply.parsed),
                      !.outcome = McqRaised("ValueError",
                          "DeepSeek failed to generate a valid batch of " \o ToString(mcq.k)
                              \o " MCQs. Last error: " \o CallOnceError(reply.parsed))]
    /\ UNCHANGED McqRest

\* parsed.get on a JSON value that is not an object: not a ValueError, not retried
CallCrashes(reply) ==
    /\ mcq.pc = "loop"
    /\ reply.parsed.kind = "list"
    /\ mcq' = [mcq EXCEPT !.pc = "done", !.tries = mcq.tries + 1,
                 !.outcome = McqRaised("AttributeError",
                                       "'list' object has no attribute 'get'")]
    /\ UNCHANGED McqRest

\* the controller after a batch was collected: next batch, return, or too few
AfterBatch(acc, batches_done) ==
    IF acc.remaining > 0 /\ batches_done < MAX_TOTAL_BATCHES
    THEN [mcq EXCEPT !.collected = acc.collected, !.seen = acc.seen,
                     !.remaining = acc.remaining, !.batches_done = batches_done,
                     !.tries = 0, !.last_err = "",
                     !.k = Min(BATCH_SIZE, acc.remaining)]
    ELSE [mcq EXCEPT !.pc = "done",
                     !.collected = acc.collected, !.seen = acc.seen,
                     !.remaining = acc.remaining, !.batches_done = batches_done,
                     !.tries = mcq.tries + 1, !.last_err = "",
                     !.outcome =
                        IF Len(acc.collected) < mcq.num_questions
                        THEN McqRaised("ValueError",
                                 "DeepSeek did not produce enough valid MCQs. Requested "
                                     \o ToString(mcq.num_questions) \o ", got "
                                     \o ToString(Len(acc.collected)) \o ".")
                        ELSE McqReturned(SubSeq(acc.collected, 1, mcq.num_questions))]

\* _call_once returns a batch: one of those the shuffles allow
CallReturns(reply, batch) ==
    /\ mcq.pc = "loop"
    /\ reply.parsed.kind = "dict" /\ reply.parsed.has_list
    /\ batch \in reply.batches
    /\ mcq' = AfterBatch(Collect(batch, 1,
                                 [collected |-> mcq.collected, seen |-> mcq.seen,
                                  remaining |-> mcq.remaining]),
                         mcq.batches_done + 1)
    /\ UNCHANGED McqRest

McqReset ==
    /\ mcq.pc = "done"
    /\ mcq' = McqIdle
    /\ UNCHANGED McqRest

McqNext ==
    \/ \E n \in McqCounts, d \in McqDifficulties : generate_mcqs_with_llm(n, d)
    \/ \E reply \in BackendOutcomes : CallFails(reply)
    \/ \E reply \in BackendOutcomes : CallCrashes(reply)
    \/ \E reply \in BackendOutcomes : \E batch \in reply.batches : CallReturns(reply, batch)
    \/ McqReset

SpecMcq == Init /\ [][McqNext]_vars


\* C27: generate_mcqs_with_llm with num_questions = n > 0 stops after at most
\* 10 batches of at most 3 backend attempts each, and either returns exactly n
\* questions whose normalized stems are pairwise distinct or raises
\* ValueError; it never returns fewer or more than n questions.
C27_ExactlyNOrValueError ==
    /\ mcq.batches_done <= MAX_TOTAL_BATCHES
    /\ mcq.tries <= MAX_TRIES_PER_BATCH
    /\ (mcq.pc = "done" /\ mcq.num_questions > 0) =>
          \/ /\ mcq.outcome.kind = "returned"
             /\ Len(mcq.outcome.value) = mcq.num_questions
             /\ \A i, j \in 1..Len(mcq.outcome.value) :
                   i # j => _stem_key(mcq.outcome.value[i].stem)
                               # _stem_key(mcq.outcome.value[j].stem)
          \/ /\ mcq.outcome.kind = "raised"
             /\ mcq.outcome.exc = "ValueError"


\* the items the backend can send, and the texts it marked as correct in one
McqItems == UNION { {p[i] : i \in 1..Len(p)} : p \in McqPayloads }
MarkedCorrect(item) ==
    {item.options[i].text : i \in {j \in 1..Len(item.options) :
        _norm_label(item.options[j].label) = _norm_label(item.correct_label)}}
TextBag(options) == [t \in {options[i].text : i \in DOMAIN options} |->
                        Cardinality({i \in DOMAIN options : options[i].text = t})]

\* the question is a relabelled shuffle of the item with the item's answer
RelabelledFrom(q, item) ==
    /\ Strip(item.stem) = q.stem
    /\ Len(item.options) = 4
    /\ TextBag(q.options) = TextBag(item.options)
    /\ \E i \in 1..4 : /\ q.options[i].label = q.correct_label
                       /\ q.options[i].text \in MarkedCorrect(item)

Whitespace == " \n\t"
LiveFallbackLen == 500
BackupFallbackLen == 200

\* word, then \s*, then "-": the position of the dash, 0 when word at i is not
\* followed by one (IGNORECASE)
VerdictDash(s, i, word) ==
    IF MatchLowerAt(s, word, i)
          /\ SkipChars(s, i + Len(word), Whitespace) <= Len(s)
          /\ Char(s, SkipChars(s, i + Len(word), Whitespace)) = "-"
    THEN SkipChars(s, i + Len(word), Whitespace)
    ELSE 0

\* \s*([^\.]+\.?) matched from position p: the span of the group.  \s* takes
\* all the whitespace and gives one character back when no other is left for
\* the group
SentenceAt(s, p) ==
    LET k == SkipChars(s, p, Whitespace)
        dot == FindFrom(s, ".", k)
    IN  IF k <= Len(s) /\ Char(s, k) # "."
        THEN [ok |-> TRUE, from |-> k, to |-> IF dot = 0 THEN Len(s) ELSE dot]
        ELSE IF k > p
        THEN [ok |-> TRUE, from |-> k - 1, to |-> IF k <= Len(s) THEN k ELSE Len(s)]
        ELSE [ok |-> FALSE, from |-> 0, to |-> 0]

\* re.search(r'Correct\s*-\s*([^\.]+\.?)', agent_text, IGNORECASE): where it matches
VerdictMatches(s, word) ==
    {i \in 1..Len(s) : /\ VerdictDash(s, i, word) # 0
                       /\ SentenceAt(s, VerdictDash(s, i, word) + 1).ok}

\* group(1) of the leftmost match
Group1(s, word) ==
    LET g == SentenceAt(s, VerdictDash(s, FirstOf(VerdictMatches(s, word)), word) + 1)
    IN  [text |-> SubSeq(s, g.from, g.to), to |-> g.to]

WithPeriod(s) == IF EndsWith(s, ".") THEN s ELSE s \o "."

BecausePhrase == "you likely chose this because"

\* group(2): (?:\s*You likely chose this because\s*([^\.]+\.?))?, "" when absent
Group2(s, after) ==
    LET q == SkipChars(s, after + 1, Whitespace)
        g == SentenceAt(s, q + Len(BecausePhrase))
    IN  IF MatchLowerAt(s, BecausePhrase, q) /\ g.ok THEN SubSeq(s, g.from, g.to) ELSE ""

Misconception(group2) ==
    LET m == IF group2 = "" THEN "the selected option doesn't match the lecture evidence"
             ELSE Strip(group2)
    IN  IF EndsWith(m, ".") THEN SubSeq(m, 1, Len(m) - 1) ELSE m

\* the text clean_agent_response returns, in the live and the backup revision
CleanedResponse(rev, agent_text) ==
    IF agent_text = "" \/ (rev = "live" /\ Strip(agent_text) = "")
    THEN "No response from AI Tutor."
    ELSE IF StartsWith(agent_text, "Correct - ") \/ StartsWith(agent_text, "Incorrect - ")
    THEN WithPeriod(agent_text)
    ELSE IF VerdictMatches(agent_text, "correct") # {}
    THEN "Correct - " \o WithPeriod(Strip(Group1(agent_text, "correct").text))
    ELSE IF VerdictMatches(agent_text, "incorrect") # {}
    THEN "Incorrect - " \o WithPeriod(Strip(Group1(agent_text, "incorrect").text))
            \o " You likely chose this because "
            \o Misconception(Group2(agent_text, Group1(agent_text, "incorrect").to)) \o "."
    ELSE IF rev = "live"
    THEN (IF Strip(Prefix(agent_text, LiveFallbackLen)) # ""
          THEN Strip(Prefix(agent_text, LiveFallbackLen))
          ELSE "AI Response was empty.")
    ELSE Strip(Prefix(agent_text, BackupFallbackLen))

\* the agent texts: some lead-in, a verdict token or none, an explanation
AgentLeadIns == {"", "Verdict: ", "  ", "**Result**\n"}
AgentVerdicts == {"", "Correct - ", "Incorrect - ", "incorrect-", "INCORRECT  -  ", "Correct-"}
AgentBodies ==
    {"", "The answer is B.", "It matches the notes",
     "B is right. You likely chose this because of a typo."}
AgentTexts == {a \o v \o b : a \in AgentLeadIns, v \in AgentVerdicts, b \in AgentBodies}

CleanerRest == << core, evid, agents, demo, mcq, store >>

clean_agent_response(rev, agent_text) ==
    /\ cleaner.pc = "idle"
    /\ cleaner' = [pc |-> "done", rev |-> rev, agent_text |-> agent_text,
                   response |-> CleanedResponse(rev, agent_text)]
    /\ UNCHANGED CleanerRest

CleanerReturn ==
    /\ cleaner.pc = "done"
    /\ cleaner' = CleanerIdle
    /\ UNCHANGED CleanerRest

CleanerNext ==
    \/ \E rev \in {"live", "backup"}, agent_text \in AgentTexts :
          clean_agent_response(rev, agent_text)
    \/ CleanerReturn

SpecCleaner == Init /\ [][CleanerNext]_vars

\* the agent text carries the verdict token "Incorrect -" somewhere
VerdictIncorrect(s) == \E i \in 1..Len(s) : VerdictDash(s, i, "incorrect") # 0

\* C29: clean_agent_response never changes the verdict: for every agent text
\* whose verdict token is "Incorrect -", wherever it stands, the cleaned
\* response begins with "Incorrect - " and never with "Correct - "; and the
\* cleaned response is never the empty string.
C29_VerdictKept ==
    cleaner.pc = "done" =>
        /\ cleaner.response # ""
        /\ VerdictIncorrect(cleaner.agent_text) =>
              /\ StartsWith(cleaner.response, "Incorrect - ")
              /\ ~StartsWith(cleaner.response, "Correct - ")


\* ---------------------------------------------------------------------------
\* mcq_management/service.py save_generated_questions
\* ---------------------------------------------------------------------------
MaxStored == 2

SavedOption(label, text) == [label |-> label, text |-> text]

\* the option lists and answer labels a generated question can arrive with:
\* the LLM's JSON reaches this function unchecked through generate_mcqs_agent
SavedOptionLists ==
    { << SavedOption("A", "Paris"), SavedOption("B", "Rome"),
         SavedOption("C", "Oslo"), SavedOption("D", "Bonn") >>,
      << SavedOption("A", "Paris"), SavedOption("A", "Rome"),
         SavedOption("B", "Oslo"), SavedOption("C", "Bonn") >>,
      << SavedOption("a", "Paris"), SavedOption("b", "Rome") >>,
      << >> }
\* "" stands for a missing correct_label (None)
SavedCorrectLabels == {"A", "B", "E", "a", ""}
SavedQuestions ==
    { [stem |-> "Capital of France?", options |-> o, correct_label |-> c] :
         o \in SavedOptionLists, c \in SavedCorrectLabels }
SavedBatches ==
    {<< q >> : q \in SavedQuestions} \cup {<< q, r >> : q \in SavedQuestions, r \in SavedQuestions}

\* the Option rows of one question: ids follow the rows already in the table
OptionRows(q, question_id, first_id) ==
    [i \in 1..Len(q.options) |->
        [id |-> first_id + i - 1, question_id |-> question_id,
         label |-> q.options[i].label, text |-> q.options[i].text,
         is_correct |-> (q.options[i].label = q.correct_label)]]

\* next((opt for opt in option_models if opt.label == q.correct_label), None),
\* then next((o for o in option_models if o.is_correct), option_models[0]);
\* 0 stands for the IndexError of option_models[0] on an empty list
CorrectOptionId(rows, correct_label) ==
    IF \E i \in 1..Len(rows) : rows[i].label = correct_label
    THEN rows[FirstOf({i \in 1..Len(rows) : rows[i].label = correct_label})].id
    ELSE IF \E i \in 1..Len(rows) : rows[i].is_correct
    THEN rows[FirstOf({i \in 1..Len(rows) : rows[i].is_correct})].id
    ELSE IF Len(rows) > 0 THEN rows[1].id
    ELSE 0

\* the tables after the loop has handled questions[i..]
RECURSIVE SaveFrom(_, _, _)
SaveFrom(questions, i, db) ==
    IF i > Len(questions) \/ db.raised # "" THEN db
    ELSE LET question_id == Len(db.questions) + 1
             rows == OptionRows(questions[i], question_id, Len(db.options) + 1)
             correct_id == CorrectOptionId(rows, questions[i].correct_label)
         IN  IF correct_id = 0
             THEN [db EXCEPT !.raised = "IndexError"]
             ELSE SaveFrom(questions, i + 1,
                     [questions |-> Append(db.questions,
                                        [id |-> question_id, stem |-> questions[i].stem]),
                      options |-> db.options \o rows,
                      answer_keys |-> Append(db.answer_keys,
                                        [question_id |-> question_id,
                                         correct_option_id |-> correct_id]),
                      created_ids |-> Append(db.created_ids, question_id),
                      raised |-> ""])

StoreRest == << core, evid, agents, demo, mcq, cleaner >>

\* one call: db.commit() when the loop ends, nothing written when it raises
save_generated_questions(questions) ==
    /\ Len(store.questions) + Len(questions) <= MaxStored
    /\ store' = IF SaveFrom(questions, 1, [store EXCEPT !.created_ids = << >>,
                                                         !.raised = ""]).raised # ""
                THEN [store EXCEPT !.created_ids = << >>, !.raised = "IndexError"]
                ELSE SaveFrom(questions, 1, [store EXCEPT !.created_ids = << >>,
                                                          !.raised = ""])
    /\ UNCHANGED StoreRest

StoreNext == \E questions \in SavedBatches : save_generated_questions(questions)

SpecStore == Init /\ [][StoreNext]_vars

\* C30: after save_generated_questions commits, every question it created has
\* exactly one option flagged is_correct, and the question's answer key
\* references that option, for every list of options and every correct_label.
C30_OneCorrectOption ==
    \A n \in 1..Len(store.questions) :
        /\ Cardinality({i \in 1..Len(store.options) :
              /\ store.options[i].question_id = store.questions[n].id
              /\ store.options[i].is_correct}) = 1
        /\ \E k \in 1..Len(store.answer_keys), i \in 1..Len(store.options) :
              /\ store.answer_keys[k].question_id = store.questions[n].id
              /\ store.answer_keys[k].correct_option_id = store.options[i].id
              /\ store.options[i].question_id = store.questions[n].id
              /\ store.options[i].is_correct
====
